---- MODULE Spec2Model ----
(***************************************************************************)
(* Screenplay converters of the repository:                                *)
(*   imdb-top250-screenplays/converter.py   (HTML -> Fountain)             *)
(*   south-park-transcripts/converter.py    (HTML -> Fountain, transcript) *)
(*   south-park-transcripts/convert_to_pdf.py (Fountain -> elements)       *)
(* and the download loops that call them.                                  *)
(*                                                                         *)
(* A Python str is a sequence of one-character strings.  Indices returned  *)
(* by str_find / str_rfind are 0-based with -1 for "not found", as in      *)
(* Python; Slice(s, a, b) is s[a:b].                                       *)
(***************************************************************************)
EXTENDS Integers, Sequences, FiniteSets, TLC

VARIABLES
    prog,            \* which program of the repository is running
    pc,              \* position inside that program
    html_content,    \* argument of convert_to_fountain
    text,            \* local `text`
    pre_start,       \* local `pre_start` as left by the tag search
    lines,           \* local `lines`
    idx,             \* number of loop iterations completed
    fountain_lines,  \* local `fountain_lines`
    kinds,           \* history: rule of the cascade that emitted fountain_lines[k]
    output,          \* return value of convert_to_fountain
    second,          \* lines re-emitted by a second forward pass over `output`
    elements,        \* result of parse_fountain(output)
    successful,      \* download loop counter
    failed,          \* download loop counter
    items,           \* download loop: the movies / episodes iterated
    disk,            \* download loop: item -> content of its .fountain file
    requests,        \* history: every network request issued, in order
    raised,          \* history: the last iteration ended in its except branch
    script_url,      \* lookup loop: local `script_url` of the movie at hand
    fountain_content,\* argument of fountain_to_html / text read by convert_fountain_to_pdf
    title,           \* argument and local `title` of fountain_to_html
    html_parts,      \* local `html_parts` of fountain_to_html
    all_scripts_cache, \* class attribute IMSDbScraper._all_scripts_cache
    self,            \* the IMSDbScraper instance _get_all_scripts runs on
    returned         \* what the last finished _get_all_scripts call returned

vars == <<prog, pc, html_content, text, pre_start, lines, idx, fountain_lines,
          kinds, output, second, elements, successful, failed, items, disk,
          requests, raised, script_url, fountain_content, title, html_parts,
          all_scripts_cache, self, returned>>

-----------------------------------------------------------------------------
(* Python str primitives *)

LowerLetters == <<"a","b","c","d","e","f","g","h","i","j","k","l","m",
                  "n","o","p","q","r","s","t","u","v","w","x","y","z">>
UpperLetters == <<"A","B","C","D","E","F","G","H","I","J","K","L","M",
                  "N","O","P","Q","R","S","T","U","V","W","X","Y","Z">>
Digits == {"0","1","2","3","4","5","6","7","8","9"}

IsLowerCh(c) == \E k \in 1..26 : LowerLetters[k] = c
IsUpperCh(c) == \E k \in 1..26 : UpperLetters[k] = c
IsSpace(c) == c \in {" ", "\t", "\n", "\r"}

ToUpperCh(c) ==
    IF IsLowerCh(c) THEN UpperLetters[CHOOSE k \in 1..26 : LowerLetters[k] = c] ELSE c
ToLowerCh(c) ==
    IF IsUpperCh(c) THEN LowerLetters[CHOOSE k \in 1..26 : UpperLetters[k] = c] ELSE c

str_upper(s) == [k \in 1..Len(s) |-> ToUpperCh(s[k])]
str_lower(s) == [k \in 1..Len(s) |-> ToLowerCh(s[k])]

\* str.isupper(): at least one cased character and no lower-case one
str_isupper(s) ==
    /\ \E k \in 1..Len(s) : IsUpperCh(s[k])
    /\ \A k \in 1..Len(s) : ~IsLowerCh(s[k])

MinOf(S) == CHOOSE x \in S : \A y \in S : x <= y
MaxOf(S) == CHOOSE x \in S : \A y \in S : x >= y

Slice(s, a, b) == SubSeq(s, a + 1, b)

str_lstrip(s) ==
    LET ns == {k \in 1..Len(s) : ~IsSpace(s[k])}
    IN  IF ns = {} THEN <<>> ELSE SubSeq(s, MinOf(ns), Len(s))
str_rstrip(s) ==
    LET ns == {k \in 1..Len(s) : ~IsSpace(s[k])}
    IN  IF ns = {} THEN <<>> ELSE SubSeq(s, 1, MaxOf(ns))
str_strip(s) == str_rstrip(str_lstrip(s))

\* s[p:].startswith(pat), p 0-based
MatchAt(s, pat, p) ==
    /\ p + Len(pat) <= Len(s)
    /\ \A k \in 1..Len(pat) : s[p + k] = pat[k]
\* the same, ignoring case (re.IGNORECASE on a literal)
MatchAtCI(s, pat, p) ==
    /\ p + Len(pat) <= Len(s)
    /\ \A k \in 1..Len(pat) : ToUpperCh(s[p + k]) = ToUpperCh(pat[k])

str_startswith(s, pat) == MatchAt(s, pat, 0)
str_endswith(s, pat) == Len(pat) <= Len(s) /\ MatchAt(s, pat, Len(s) - Len(pat))

str_find(s, pat) ==
    LET hits == {p \in 0..(Len(s) - Len(pat)) : MatchAt(s, pat, p)}
    IN  IF hits = {} THEN -1 ELSE MinOf(hits)
str_rfind(s, pat) ==
    LET hits == {p \in 0..(Len(s) - Len(pat)) : MatchAt(s, pat, p)}
    IN  IF hits = {} THEN -1 ELSE MaxOf(hits)
str_contains(s, pat) == str_find(s, pat) # -1

\* s.split('\n'): always at least one piece
RECURSIVE str_split(_)
str_split(s) ==
    LET nl == {k \in 1..Len(s) : s[k] = "\n"}
    IN  IF nl = {} THEN <<s>>
        ELSE <<SubSeq(s, 1, MinOf(nl) - 1)>> \o str_split(SubSeq(s, MinOf(nl) + 1, Len(s)))

\* s.splitlines(): like split('\n') but a final line break opens no empty last line
\* (the texts of this model hold no line boundary other than "\n")
str_splitlines(s) ==
    LET parts == str_split(s)
    IN  IF parts[Len(parts)] = <<>> THEN SubSeq(parts, 1, Len(parts) - 1) ELSE parts

\* "\n".join(ls)
RECURSIVE str_join(_)
str_join(ls) ==
    IF Len(ls) = 0 THEN <<>>
    ELSE IF Len(ls) = 1 THEN ls[1]
    ELSE ls[1] \o <<"\n">> \o str_join(Tail(ls))

-----------------------------------------------------------------------------
(* Regular expressions and html.unescape used by both converters *)

\* 1-based position of the first ">" at or after position `from`, 0 if none
FirstGT(s, from) ==
    LET gts == {k \in from..Len(s) : s[k] = ">"}
    IN  IF gts = {} THEN 0 ELSE MinOf(gts)

\* r'</?pre[^>]*>' with re.IGNORECASE tried at offset p: end offset of the match, or -1
PreTagEnd(s, p) ==
    LET q == IF MatchAt(s, <<"<", "/">>, p) THEN p + 2 ELSE p + 1
    IN  IF MatchAt(s, <<"<">>, p) /\ MatchAtCI(s, <<"p", "r", "e">>, q)
             /\ FirstGT(s, q + 4) # 0
        THEN FirstGT(s, q + 4)
        ELSE -1

\* r'</?b>' tried at offset p
BoldTagEnd(s, p) ==
    IF MatchAt(s, <<"<", "b", ">">>, p) THEN p + 3
    ELSE IF MatchAt(s, <<"<", "/", "b", ">">>, p) THEN p + 4
    ELSE -1

\* r'<[^>]+>' tried at offset p
AnyTagEnd(s, p) ==
    IF MatchAt(s, <<"<">>, p) /\ p + 2 <= Len(s) /\ s[p + 2] # ">"
         /\ FirstGT(s, p + 3) # 0
    THEN FirstGT(s, p + 3)
    ELSE -1

TagEnd(re, s, p) ==
    CASE re = "pre"  -> PreTagEnd(s, p)
      [] re = "bold" -> BoldTagEnd(s, p)
      [] re = "any"  -> AnyTagEnd(s, p)

\* re.sub(re, '', s): every non-overlapping match, left to right, is deleted
RECURSIVE re_sub_from(_, _, _)
re_sub_from(re, s, p) ==
    LET hits == {q \in p..(Len(s) - 1) : TagEnd(re, s, q) # -1}
    IN  IF hits = {} THEN SubSeq(s, p + 1, Len(s))
        ELSE SubSeq(s, p + 1, MinOf(hits)) \o re_sub_from(re, s, TagEnd(re, s, MinOf(hits)))
re_sub(re, s) == re_sub_from(re, s, 0)

\* html.unescape on the character references the model's documents can hold:
\* &lt; &gt; &amp; (the closing ";" is optional for these three in HTML5)
EntityAt(s, p) ==
    IF MatchAt(s, <<"&", "l", "t">>, p) THEN [len |-> 3, ch |-> "<"]
    ELSE IF MatchAt(s, <<"&", "g", "t">>, p) THEN [len |-> 3, ch |-> ">"]
    ELSE IF MatchAt(s, <<"&", "a", "m", "p">>, p) THEN [len |-> 4, ch |-> "&"]
    ELSE [len |-> 0, ch |-> ""]
RECURSIVE html_unescape_from(_, _)
html_unescape_from(s, p) ==
    LET hits == {h \in p..(Len(s) - 1) : EntityAt(s, h).len # 0}
        e == EntityAt(s, MinOf(hits))
        q == MinOf(hits) + e.len
    IN  IF hits = {} THEN SubSeq(s, p + 1, Len(s))
        ELSE SubSeq(s, p + 1, MinOf(hits)) \o <<e.ch>>
                 \o html_unescape_from(s, IF MatchAt(s, <<";">>, q) THEN q + 1 ELSE q)
html_unescape(s) == html_unescape_from(s, 0)

\* re.sub(r'\n{3,}', '\n\n', s)
NewlineRun(s, p) ==
    LET stop == {k \in (p + 1)..Len(s) : s[k] # "\n"}
    IN  IF stop = {} THEN Len(s) - p ELSE MinOf(stop) - 1 - p
RECURSIVE collapse_from(_, _)
collapse_from(s, p) ==
    LET hits == {q \in p..(Len(s) - 1) : NewlineRun(s, q) >= 3}
    IN  IF hits = {} THEN SubSeq(s, p + 1, Len(s))
        ELSE SubSeq(s, p + 1, MinOf(hits)) \o <<"\n", "\n">>
                 \o collapse_from(s, MinOf(hits) + NewlineRun(s, MinOf(hits)))
\* the collapse left out: the text is returned as joined
collapse_newlines_off(s) == s
collapse_newlines(s) == collapse_from(s, 0)

\* the scene-heading alternatives (INT|EXT|I/E|INT/EXT)
SceneWords == {<<"I","N","T">>, <<"E","X","T">>, <<"I","/","E">>,
               <<"I","N","T","/","E","X","T">>}

\* (INT|EXT|I/E|INT/EXT)\.?\s+ with re.IGNORECASE, tried at offset p
SceneWordAt(s, p) ==
    \E w \in SceneWords :
        /\ MatchAtCI(s, w, p)
        /\ LET q == p + Len(w)
           IN  \/ (q + 1 <= Len(s) /\ IsSpace(s[q + 1]))
               \/ (q + 2 <= Len(s) /\ s[q + 1] = "." /\ IsSpace(s[q + 2]))

\* length of a leading \d+\s+ of s, 0 if s does not start with one
SceneNumberLen(s) ==
    LET nd == {k \in 1..Len(s) : s[k] \notin Digits}
        d  == IF nd = {} THEN Len(s) ELSE MinOf(nd) - 1
        ns == {k \in (d + 1)..Len(s) : ~IsSpace(s[k])}
        w  == IF ns = {} THEN Len(s) - d ELSE MinOf(ns) - 1 - d
    IN  IF d >= 1 /\ w >= 1 THEN d + w ELSE 0

-----------------------------------------------------------------------------
(* imdb-top250-screenplays/converter.py : convert_to_fountain *)

PRE_OPEN  == <<"<", "p", "r", "e", ">">>
PRE_OPEN_ATTR == <<"<", "p", "r", "e", " ">>
PRE_CLOSE == <<"<", "/", "p", "r", "e", ">">>

HeaderScanLines == 30

\* the slice cut at the first closing tag
FindPre_firstClose(t) ==
    LET s1 == str_find(t, PRE_OPEN)
        e1 == str_find(t, PRE_CLOSE)
        s2 == str_find(t, PRE_OPEN_ATTR)
    IN  IF s1 # -1 /\ e1 > s1 THEN [text |-> Slice(t, s1, e1), pre_start |-> s1]
        ELSE IF s2 # -1 /\ e1 > s2 THEN [text |-> Slice(t, s2, e1), pre_start |-> s2]
        ELSE [text |-> t, pre_start |-> s2]
\* lines 13-25: the slice between the opening tag and the last closing tag
FindPre(t) ==
    LET s1 == str_find(t, PRE_OPEN)
        e1 == str_rfind(t, PRE_CLOSE)
        s2 == str_find(t, PRE_OPEN_ATTR)
    IN  IF s1 # -1 /\ e1 > s1 THEN [text |-> Slice(t, s1, e1), pre_start |-> s1]
        ELSE IF s2 # -1 /\ e1 > s2 THEN [text |-> Slice(t, s2, e1), pre_start |-> s2]
        ELSE [text |-> t, pre_start |-> s2]

\* lines 27-35
StripMarkup(t) == re_sub("any", html_unescape(re_sub("bold", re_sub("pre", t))))

\* line 43: the line is "actual content"
IsContentLine(line) ==
    LET stripped == str_strip(line)
    IN  /\ stripped # <<>>
        /\ ~str_startswith(stripped, <<"<">>)
        /\ ~str_startswith(stripped, <<"/", "/">>)
        /\ ~str_startswith(stripped, <<"i", "f", " ">>)

\* the body started at the first content line itself
StartIdx_atContent(ls, limit) ==
    LET content == {k \in 1..Len(ls) : IsContentLine(ls[k])}
        i == MinOf(content) - 1
    IN  IF content # {} /\ i < limit THEN i ELSE 0
\* lines 38-47: start_idx chosen by the scan over text.split('\n')
StartIdx(ls, limit) ==
    LET content == {k \in 1..Len(ls) : IsContentLine(ls[k])}
        i == MinOf(content) - 1
    IN  IF content # {} /\ i < limit THEN (IF i - 1 > 0 THEN i - 1 ELSE 0) ELSE 0

\* lines 38-54: header skip, re-join, splitlines
BodyLines(t) ==
    LET ls == str_split(t)
        start_idx == StartIdx(ls, HeaderScanLines)
        kept == IF start_idx > 0 THEN SubSeq(ls, start_idx + 1, Len(ls)) ELSE ls
    IN  str_splitlines(str_join(kept))

\* the indentation measured on the stripped line
LeadingWhitespace_afterStrip(line) ==
    Len(str_strip(line)) - Len(str_lstrip(str_strip(line)))
LeadingWhitespace(line) == Len(line) - Len(str_lstrip(line))

\* line 65: re.match(r'^(\d+\s+)?(INT|EXT|I/E|INT/EXT)\.?\s+', stripped, re.IGNORECASE)
scene_match(stripped) == SceneWordAt(stripped, SceneNumberLen(stripped))

\* the scene number kept
StripSceneNumber_keep(stripped) == stripped
\* line 67: re.sub(r'^\d+\s+', '', stripped)
StripSceneNumber(stripped) ==
    SubSeq(stripped, SceneNumberLen(stripped) + 1, Len(stripped))

\* line 72
IsTransition(stripped) ==
    /\ str_isupper(stripped)
    /\ \/ str_endswith(stripped, <<":">>)
       \/ str_contains(stripped, <<" ", "T", "O", ":">>)
       \/ str_startswith(stripped, <<"F", "A", "D", "E", " ", "T", "O">>)

TransitionMark == <<">", " ">>

\* the cascade with the Parenthetical test placed before the Dialogue test
ClassifyLine_parenFirst(line) ==
    LET stripped == str_strip(line)
        leading_whitespace == Len(line) - Len(str_lstrip(line))
    IN  IF stripped = <<>> THEN [rule |-> 1, out |-> <<>>]
        ELSE IF SceneWordAt(stripped, SceneNumberLen(stripped))
             THEN [rule |-> 2, out |-> str_upper(SubSeq(stripped, SceneNumberLen(stripped) + 1,
                                                        Len(stripped)))]
        ELSE IF str_isupper(stripped) /\ (str_endswith(stripped, <<":">>)
                   \/ str_contains(stripped, <<" ", "T", "O", ":">>)
                   \/ str_startswith(stripped, <<"F", "A", "D", "E", " ", "T", "O">>))
             THEN [rule |-> 3, out |-> <<">", " ">> \o stripped]
        ELSE IF leading_whitespace >= 20 /\ str_isupper(stripped)
             THEN [rule |-> 4, out |-> stripped]
        ELSE IF 10 <= leading_whitespace /\ leading_whitespace < 25
                /\ str_startswith(stripped, <<"(">>) /\ str_endswith(stripped, <<")">>)
             THEN [rule |-> 6, out |-> stripped]
        ELSE IF 10 <= leading_whitespace /\ leading_whitespace < 20 /\ ~str_isupper(stripped)
             THEN [rule |-> 5, out |-> stripped]
        ELSE IF 4 <= leading_whitespace /\ leading_whitespace < 10
                /\ str_isupper(stripped) /\ Len(stripped) < 30
             THEN [rule |-> 7, out |-> stripped]
        ELSE [rule |-> 8, out |-> stripped]

\* the cascade with a Dialogue line emitted as read, indentation kept
ClassifyLine_rawDialogue(line) ==
    LET stripped == str_strip(line)
        leading_whitespace == Len(line) - Len(str_lstrip(line))
    IN  IF stripped = <<>> THEN [rule |-> 1, out |-> <<>>]
        ELSE IF SceneWordAt(stripped, SceneNumberLen(stripped))
             THEN [rule |-> 2, out |-> str_upper(SubSeq(stripped, SceneNumberLen(stripped) + 1,
                                                        Len(stripped)))]
        ELSE IF str_isupper(stripped) /\ (str_endswith(stripped, <<":">>)
                   \/ str_contains(stripped, <<" ", "T", "O", ":">>)
                   \/ str_startswith(stripped, <<"F", "A", "D", "E", " ", "T", "O">>))
             THEN [rule |-> 3, out |-> <<">", " ">> \o stripped]
        ELSE IF leading_whitespace >= 20 /\ str_isupper(stripped)
             THEN [rule |-> 4, out |-> stripped]
        ELSE IF 10 <= leading_whitespace /\ leading_whitespace < 20 /\ ~str_isupper(stripped)
             THEN [rule |-> 5, out |-> str_rstrip(line)]
        ELSE IF 10 <= leading_whitespace /\ leading_whitespace < 25
                /\ str_startswith(stripped, <<"(">>) /\ str_endswith(stripped, <<")">>)
             THEN [rule |-> 6, out |-> stripped]
        ELSE IF 4 <= leading_whitespace /\ leading_whitespace < 10
                /\ str_isupper(stripped) /\ Len(stripped) < 30
             THEN [rule |-> 7, out |-> stripped]
        ELSE [rule |-> 8, out |-> stripped]

\* lines 57-99, one iteration: the rule of the cascade that fires (1..8, in
\* source order) and the line it appends to fountain_lines
ClassifyLine(line) ==
    LET stripped == str_strip(line)
        leading_whitespace == LeadingWhitespace(line)
    IN  IF stripped = <<>> THEN [rule |-> 1, out |-> <<>>]
        ELSE IF scene_match(stripped)
             THEN [rule |-> 2, out |-> str_upper(StripSceneNumber(stripped))]
        ELSE IF IsTransition(stripped)
             THEN [rule |-> 3, out |-> TransitionMark \o stripped]
        ELSE IF leading_whitespace >= 20 /\ str_isupper(stripped)
             THEN [rule |-> 4, out |-> stripped]
        ELSE IF 10 <= leading_whitespace /\ leading_whitespace < 20 /\ ~str_isupper(stripped)
             THEN [rule |-> 5, out |-> stripped]
        ELSE IF 10 <= leading_whitespace /\ leading_whitespace < 25
                /\ str_startswith(stripped, <<"(">>) /\ str_endswith(stripped, <<")">>)
             THEN [rule |-> 6, out |-> stripped]
        ELSE IF 4 <= leading_whitespace /\ leading_whitespace < 10
                /\ str_isupper(stripped) /\ Len(stripped) < 30
             THEN [rule |-> 7, out |-> stripped]
        ELSE [rule |-> 8, out |-> stripped]

\* the kind each rule of the cascade stands for (comments at lines 64-98)
RuleKind == <<"Blank", "SceneHeading", "Transition", "Character", "Dialogue",
              "Parenthetical", "Character", "Action">>

\* the lines joined and returned as they are
JoinAndCollapse_joinOnly(fl) == str_join(fl)
\* lines 101-103
JoinAndCollapse(fl) == collapse_newlines(str_join(fl))

\* the whole function, lines 7-105
convert_to_fountain(html) ==
    LET ls == BodyLines(StripMarkup(FindPre(html).text))
    IN  JoinAndCollapse([k \in 1..Len(ls) |-> ClassifyLine(ls[k]).out])

\* lines 108-110
convert_html_to_fountain(html) == convert_to_fountain(html)

-----------------------------------------------------------------------------
(* south-park-transcripts/convert_to_pdf.py : parse_fountain *)

TransitionWords == {<<"F","A","D","E">>, <<"C","U","T"," ","T","O">>,
                    <<"D","I","S","S","O","L","V","E">>,
                    <<"S","M","A","S","H"," ","C","U","T">>}

\* line.split(':', 1)[1].strip() for a line that holds a colon
AfterFirstColon(line) ==
    LET c == MinOf({k \in 1..Len(line) : line[k] = ":"})
    IN  str_strip(SubSeq(line, c + 1, Len(line)))

\* the look-ahead stopping at the line right below, blank or not
NextIsDialogue_adjacent(ls, i) ==
    /\ i + 1 <= Len(ls)
    /\ str_strip(ls[i + 1]) # <<>>
    /\ (~str_isupper(str_strip(ls[i + 1])) \/ str_startswith(str_strip(ls[i + 1]), <<"(">>))
\* lines 127-134: the look-ahead of the character rule, from line i (1-based) of ls
NextIsDialogue(ls, i) ==
    LET later == {j \in (i + 1)..Len(ls) : str_strip(ls[j]) # <<>>}
        next_line == str_strip(ls[MinOf(later)])
    IN  /\ later # {}
        /\ (~str_isupper(next_line) \/ str_startswith(next_line, <<"(">>))

\* the cascade with the '>' test placed before the keyword test
ParseBranch_markerFirst(ls, i) ==
    LET line == str_rstrip(ls[i])
        indent == Len(line) - Len(str_lstrip(line))
    IN  IF str_startswith(str_lower(line), <<"t","i","t","l","e",":">>)
        THEN [rule |-> 2, type |-> "title", text |-> AfterFirstColon(line)]
        ELSE IF SceneWordAt(line, 0)
        THEN [rule |-> 3, type |-> "scene_heading", text |-> line]
        ELSE IF str_startswith(line, <<">">>)
        THEN [rule |-> 5, type |-> "transition",
              text |-> str_strip(SubSeq(line, 2, Len(line)))]
        ELSE IF str_isupper(line) /\ \E w \in TransitionWords : str_contains(line, w)
        THEN [rule |-> 4, type |-> "transition", text |-> line]
        ELSE IF str_isupper(line) /\ Len(line) < 40 /\ ~str_startswith(line, <<"(">>)
                /\ NextIsDialogue(ls, i)
        THEN [rule |-> 6, type |-> "character", text |-> line]
        ELSE IF str_startswith(line, <<"(">>) /\ str_endswith(line, <<")">>)
        THEN [rule |-> 7, type |-> "parenthetical", text |-> line]
        ELSE IF indent >= 20 THEN [rule |-> 8, type |-> "character", text |-> str_strip(line)]
        ELSE IF indent >= 10 THEN [rule |-> 8, type |-> "dialogue", text |-> str_strip(line)]
        ELSE [rule |-> 8, type |-> "action", text |-> str_strip(line)]

\* lines 99-156: the branch of the cascade taken for line i (1-based) of ls, a
\* non-blank line (2 title, 3 scene heading, 4 transition by keyword, 5 transition
\* by '>', 6 character by look-ahead, 7 parenthetical, 8 indentation), and the
\* element it appends
ParseBranch(ls, i) ==
    LET line == str_rstrip(ls[i])
        indent == Len(line) - Len(str_lstrip(line))
    IN  IF str_startswith(str_lower(line), <<"t","i","t","l","e",":">>)
        THEN [rule |-> 2, type |-> "title", text |-> AfterFirstColon(line)]
        ELSE IF SceneWordAt(line, 0)
        THEN [rule |-> 3, type |-> "scene_heading", text |-> line]
        ELSE IF str_isupper(line) /\ \E w \in TransitionWords : str_contains(line, w)
        THEN [rule |-> 4, type |-> "transition", text |-> line]
        ELSE IF str_startswith(line, <<">">>)
        THEN [rule |-> 5, type |-> "transition",
              text |-> str_strip(SubSeq(line, 2, Len(line)))]
        ELSE IF str_isupper(line) /\ Len(line) < 40 /\ ~str_startswith(line, <<"(">>)
                /\ NextIsDialogue(ls, i)
        THEN [rule |-> 6, type |-> "character", text |-> line]
        ELSE IF str_startswith(line, <<"(">>) /\ str_endswith(line, <<")">>)
        THEN [rule |-> 7, type |-> "parenthetical", text |-> line]
        ELSE IF indent >= 20 THEN [rule |-> 8, type |-> "character", text |-> str_strip(line)]
        ELSE IF indent >= 10 THEN [rule |-> 8, type |-> "dialogue", text |-> str_strip(line)]
        ELSE [rule |-> 8, type |-> "action", text |-> str_strip(line)]

\* lines 92-156: the element appended for line i (1-based) of ls, a non-blank line
ParseLine(ls, i) ==
    [type |-> ParseBranch(ls, i).type, text |-> ParseBranch(ls, i).text]

\* lines 90-160: the main loop from cursor i (0-based) on
RECURSIVE parse_from(_, _)
parse_from(ls, i) ==
    IF i >= Len(ls) THEN <<>>
    ELSE IF str_strip(str_rstrip(ls[i + 1])) = <<>> THEN parse_from(ls, i + 1)
    ELSE <<ParseLine(ls, i + 1)>> \o parse_from(ls, i + 1)

parse_fountain(content) == parse_from(str_split(content), 0)

-----------------------------------------------------------------------------
(* south-park-transcripts/converter.py : convert_to_fountain *)

sp_HeaderScanLines == 20
NameLimit == 40

\* lines 12-24
sp_FindPre(t) ==
    LET s1 == str_find(t, PRE_OPEN)
        e1 == str_rfind(t, PRE_CLOSE)
        s2 == str_find(t, PRE_OPEN_ATTR)
    IN  IF s1 # -1 /\ e1 > s1 THEN [text |-> Slice(t, s1, e1), pre_start |-> s1]
        ELSE IF s2 # -1 /\ e1 > s2 THEN [text |-> Slice(t, s2, e1), pre_start |-> s2]
        ELSE [text |-> t, pre_start |-> s2]

\* the early return left out, as in the IMDb converter
sp_NoContent_never(ps) == FALSE
\* line 26: no opening tag was found
sp_NoContent(ps) == ps = -1

\* lines 29-37
sp_StripMarkup(t) == re_sub("any", html_unescape(re_sub("bold", re_sub("pre", t))))

\* lines 39-53
sp_BodyLines(t) ==
    LET ls == str_split(t)
        start_idx == StartIdx(ls, sp_HeaderScanLines)
    IN  IF start_idx > 0 THEN SubSeq(ls, start_idx + 1, Len(ls)) ELSE ls

\* line 85: stripped.split(':', 1) for a line that holds a colon
ColonParts(stripped) ==
    LET c == MinOf({k \in 1..Len(stripped) : stripped[k] = ":"})
    IN  <<SubSeq(stripped, 1, c - 1), SubSeq(stripped, c + 1, Len(stripped))>>

\* lines 93-94
sp_IsTransition(stripped) ==
    str_isupper(stripped) /\ \E w \in TransitionWords : str_contains(stripped, w)

\* lines 55-98, one iteration: the branch taken (1 blank, 2 scene heading,
\* 3 character cue, 4 "NAME: speech", 5 transition, 6 action) and the lines
\* it appends to fountain_lines
sp_ClassifyLine(line) ==
    LET stripped == str_strip(line)
        leading_whitespace == LeadingWhitespace(line)
        has_colon == \E k \in 1..Len(stripped) : stripped[k] = ":"
        head == str_strip(ColonParts(stripped)[1])
        rest == str_strip(ColonParts(stripped)[2])
    IN  IF stripped = <<>> THEN [rule |-> 1, out |-> << <<>> >>]
        ELSE IF SceneWordAt(stripped, 0)
             THEN [rule |-> 2, out |-> <<str_upper(stripped)>>]
        ELSE IF leading_whitespace >= 4 /\ str_isupper(stripped)
                /\ ~has_colon /\ Len(stripped) < NameLimit
             THEN [rule |-> 3, out |-> <<stripped>>]
        ELSE IF has_colon /\ str_isupper(head) /\ Len(head) < NameLimit
             THEN [rule |-> 4, out |-> IF rest # <<>> THEN <<head, rest>> ELSE <<head>>]
        ELSE IF sp_IsTransition(stripped)
             THEN [rule |-> 5, out |-> <<TransitionMark \o stripped>>]
        ELSE [rule |-> 6, out |-> <<stripped>>]

RECURSIVE sp_ClassifyAll(_)
sp_ClassifyAll(ls) ==
    IF ls = <<>> THEN <<>> ELSE sp_ClassifyLine(Head(ls)).out \o sp_ClassifyAll(Tail(ls))

\* lines 100-104
sp_JoinAndCollapse(fl) == str_strip(collapse_newlines(str_join(fl)))

\* the whole function, lines 7-104
sp_convert_to_fountain(html) ==
    IF sp_NoContent(sp_FindPre(html).pre_start) THEN <<>>
    ELSE sp_JoinAndCollapse(sp_ClassifyAll(sp_BodyLines(sp_StripMarkup(sp_FindPre(html).text))))

\* lines 107-109
sp_convert_html_to_fountain(html) == sp_convert_to_fountain(html)

-----------------------------------------------------------------------------
(* Input documents *)

MaxLines == 3        \* lines of a multi-line script body
MaxBlankRun == 4     \* longest run of blank lines in a body
MaxFrags == 3        \* fragments of a free-form document

T_JOHN == <<"J","O","H","N">>    \* JOHN
T_Hi == <<"H","i",".">>    \* Hi.
T_CUT_TO == <<"C","U","T"," ","T","O",":">>    \* CUT TO:
T_JOHN_COLON == <<"J","O","H","N",":">>    \* JOHN:
T_FADE_TO == <<"F","A","D","E"," ","T","O"," ","X">>    \* FADE TO X
T_GO_TO == <<"G","O"," ","T","O",":"," ","A">>    \* GO TO: A
T_FADE_IN == <<"F","A","D","E"," ","I","N">>    \* FADE IN
T_beat == <<"(","b","e","a","t",")">>    \* (beat)
T_OS == <<"(","O",".","S",".",")">>    \* (O.S.)
T_scene_num == <<"1","2"," "," "," ","i","n","t","."," ","a">>    \* 12   int. a
T_INT == <<"I","N","T","."," ","B">>    \* INT. B
T_IE == <<"I","/","E"," ","c","a","r">>    \* I/E car
T_INT_EXT == <<"I","N","T","/","E","X","T"," ","c">>    \* INT/EXT c
T_EXT == <<"E","X","T">>    \* EXT
T_INTRO == <<"I","N","T","R","O"," ","x">>    \* INTRO x
T_NUM == <<"1","2",":">>    \* 12:
T_STAN == <<"S","T","A","N",":"," ","h","i">>    \* STAN: hi
T_Title == <<"T","i","t","l","e",":"," ","X">>    \* Title: X
T_if == <<"i","f"," ","x">>    \* if x
T_pre_a == <<"<","p","r","e"," ","a",">">>    \* <pre a>
T_bold == <<"<","b",">">>    \* <b>
T_lt == <<"&","l","t",";">>    \* &lt;

Spaces(n) == [k \in 1..n |-> " "]
SeqsUpTo(S, n) == UNION {[1..k -> S] : k \in 0..n}

Indents == {0, 4, 9, 10, 19, 20, 24, 25}
LongName(n) == [k \in 1..n |-> "A"]
Texts == {T_JOHN, T_Hi, T_CUT_TO, T_JOHN_COLON, T_FADE_TO, T_GO_TO, T_FADE_IN,
          T_beat, T_OS, T_scene_num, T_INT, T_IE, T_INT_EXT, T_EXT, T_INTRO,
          T_NUM, T_STAN, T_Title, T_if, LongName(29), LongName(30)}

\* one line of text at every indentation, with and without trailing blanks
SingleLines == {Spaces(n) \o t \o tr : n \in Indents, t \in Texts, tr \in {<<>>, <<" ">>}}

\* short scripts: cue, speech, parenthetical, transition, blank
ScriptLines == {<<>>, Spaces(22) \o T_JOHN, Spaces(15) \o T_Hi, T_CUT_TO,
                Spaces(12) \o T_beat}
Scripts == {s \in SeqsUpTo(ScriptLines, MaxLines) : Len(s) >= 2}

\* a run of n blank (empty or whitespace-only) lines, alone or between text
BlankRuns ==
    {pre \o [k \in 1..n |-> b] \o post :
        pre \in {<<>>, <<Spaces(22) \o T_JOHN>>}, n \in 0..MaxBlankRun,
        b \in {<<>>, <<" ", " ">>}, post \in {<<>>, <<Spaces(15) \o T_Hi>>}}

Bodies == {<<l>> : l \in SingleLines} \cup Scripts \cup BlankRuns

Wrap(ls) == PRE_OPEN \o str_join(ls) \o PRE_CLOSE

\* documents put together from tags, text, line breaks and a character reference
Fragments == {PRE_OPEN, T_pre_a, PRE_CLOSE, <<"x">>, <<"\n">>, T_bold, T_lt}
RECURSIVE Flatten(_)
Flatten(fs) == IF fs = <<>> THEN <<>> ELSE Head(fs) \o Flatten(Tail(fs))
FragmentDocs == {Flatten(fs) : fs \in SeqsUpTo(Fragments, MaxFrags)}

\* pages whose text starts with n lines of boilerplate (blank lines, script
\* comments, script statements, a stray "<") before the first line of content
T_comment == <<"/","/">>    \* //
T_lt_x == <<"&","l","t",";","x">>    \* &lt;x
LeadCounts == {0, 1, 2, 3, sp_HeaderScanLines - 1, sp_HeaderScanLines,
               sp_HeaderScanLines + 1, HeaderScanLines - 1, HeaderScanLines,
               HeaderScanLines + 1}
HeaderBodies ==
    {[k \in 1..n |-> lead] \o body :
        n \in LeadCounts, lead \in {<<>>, T_comment, T_if, T_lt_x},
        body \in {<<>>, <<T_JOHN>>, <<T_JOHN, T_Hi>>}}

Documents == {Wrap(b) : b \in Bodies \cup HeaderBodies} \cup FragmentDocs

-----------------------------------------------------------------------------
(* Run of either converter on one document, followed by what is done with      *)
(* its output: a second forward pass, or parse_fountain.                       *)

NoItems == <<>>
NoDisk == <<>>
NoUrl == "None"
NoCache == "None"
NoScraper == 0

Idle ==
    /\ text = <<>> /\ pre_start = -1 /\ lines = <<>> /\ idx = 0
    /\ fountain_lines = <<>> /\ kinds = <<>> /\ output = <<>>
    /\ second = <<>> /\ elements = <<>>
    /\ successful = 0 /\ failed = 0
    /\ items = NoItems /\ disk = NoDisk /\ requests = <<>> /\ raised = FALSE
    /\ script_url = NoUrl
    /\ all_scripts_cache = NoCache /\ self = NoScraper /\ returned = NoCache

Init ==
    /\ prog \in {"imdb", "sp"} /\ pc = "start"
    /\ html_content \in Documents
    /\ Idle
    /\ fountain_content = <<>> /\ title = <<>> /\ html_parts = <<>>

cacheVars == <<all_scripts_cache, self, returned>>
loopVars == <<successful, failed, items, disk, requests, raised, script_url, cacheVars>>
pdfVars == <<fountain_content, title, html_parts>>

\* converter.py lines 11-25
Extract ==
    /\ prog = "imdb" /\ pc = "start"
    /\ text' = FindPre(html_content).text
    /\ pre_start' = FindPre(html_content).pre_start
    /\ pc' = "sliced"
    /\ UNCHANGED <<prog, html_content, lines, idx, fountain_lines, kinds, output,
                   second, elements, loopVars, pdfVars>>

\* converter.py lines 27-35
Cleanup ==
    /\ prog = "imdb" /\ pc = "sliced"
    /\ text' = StripMarkup(text)
    /\ pc' = "clean"
    /\ UNCHANGED <<prog, html_content, pre_start, lines, idx, fountain_lines, kinds,
                   output, second, elements, loopVars, pdfVars>>

\* converter.py lines 37-55
HeaderSkip ==
    /\ prog = "imdb" /\ pc = "clean"
    /\ lines' = BodyLines(text)
    /\ text' = str_join(lines')
    /\ idx' = 0 /\ fountain_lines' = <<>> /\ kinds' = <<>>
    /\ pc' = "loop"
    /\ UNCHANGED <<prog, html_content, pre_start, output, second, elements, loopVars, pdfVars>>

\* the loop with blank lines skipped instead of appended
ClassifyStep_skipBlank ==
    /\ prog = "imdb" /\ pc = "loop" /\ idx < Len(lines)
    /\ IF str_strip(lines[idx + 1]) = <<>>
       THEN UNCHANGED <<fountain_lines, kinds>>
       ELSE /\ fountain_lines' = Append(fountain_lines, ClassifyLine(lines[idx + 1]).out)
            /\ kinds' = Append(kinds, ClassifyLine(lines[idx + 1]).rule)
    /\ idx' = idx + 1
    /\ UNCHANGED <<prog, pc, html_content, text, pre_start, lines, output, second,
                   elements, loopVars, pdfVars>>

\* converter.py lines 57-99, one iteration of the loop
ClassifyStep ==
    /\ prog = "imdb" /\ pc = "loop" /\ idx < Len(lines)
    /\ fountain_lines' = Append(fountain_lines, ClassifyLine(lines[idx + 1]).out)
    /\ kinds' = Append(kinds, ClassifyLine(lines[idx + 1]).rule)
    /\ idx' = idx + 1
    /\ UNCHANGED <<prog, pc, html_content, text, pre_start, lines, output, second,
                   elements, loopVars, pdfVars>>

\* converter.py lines 101-105
Emit ==
    /\ prog = "imdb" /\ pc = "loop" /\ idx = Len(lines)
    /\ output' = JoinAndCollapse(fountain_lines)
    /\ pc' = "done"
    /\ UNCHANGED <<prog, html_content, text, pre_start, lines, idx, fountain_lines,
                   kinds, second, elements, loopVars, pdfVars>>

\* the returned text goes through the loop of lines 57-99 a second time
Reclassify ==
    /\ prog = "imdb" /\ pc = "done"
    /\ second' = [k \in 1..Len(str_splitlines(output)) |->
                     ClassifyLine(str_splitlines(output)[k]).out]
    /\ pc' = "reclassified"
    /\ UNCHANGED <<prog, html_content, text, pre_start, lines, idx, fountain_lines,
                   kinds, output, elements, loopVars, pdfVars>>

\* the returned text is read back by convert_to_pdf.py parse_fountain
ParseOutput ==
    /\ prog \in {"imdb", "sp"} /\ pc = "done"
    /\ elements' = parse_fountain(output)
    /\ pc' = "parsed"
    /\ UNCHANGED <<prog, html_content, text, pre_start, lines, idx, fountain_lines,
                   kinds, output, second, loopVars, pdfVars>>

\* south-park-transcripts/converter.py lines 10-27
sp_Extract ==
    /\ prog = "sp" /\ pc = "start"
    /\ text' = sp_FindPre(html_content).text
    /\ pre_start' = sp_FindPre(html_content).pre_start
    /\ IF sp_NoContent(pre_start')
       THEN output' = <<>> /\ pc' = "done"
       ELSE output' = output /\ pc' = "sliced"
    /\ UNCHANGED <<prog, html_content, lines, idx, fountain_lines, kinds,
                   second, elements, loopVars, pdfVars>>

\* south-park-transcripts/converter.py lines 29-37
sp_Cleanup ==
    /\ prog = "sp" /\ pc = "sliced"
    /\ text' = sp_StripMarkup(text)
    /\ pc' = "clean"
    /\ UNCHANGED <<prog, html_content, pre_start, lines, idx, fountain_lines, kinds,
                   output, second, elements, loopVars, pdfVars>>

\* south-park-transcripts/converter.py lines 39-53
sp_HeaderSkip ==
    /\ prog = "sp" /\ pc = "clean"
    /\ lines' = sp_BodyLines(text)
    /\ idx' = 0 /\ fountain_lines' = <<>> /\ kinds' = <<>>
    /\ pc' = "loop"
    /\ UNCHANGED <<prog, html_content, text, pre_start, output, second, elements,
                   loopVars, pdfVars>>

\* south-park-transcripts/converter.py lines 55-98, one iteration of the loop
sp_ClassifyStep ==
    /\ prog = "sp" /\ pc = "loop" /\ idx < Len(lines)
    /\ LET c == sp_ClassifyLine(lines[idx + 1])
       IN  /\ fountain_lines' = fountain_lines \o c.out
           /\ kinds' = kinds \o [k \in 1..Len(c.out) |-> c.rule]
    /\ idx' = idx + 1
    /\ UNCHANGED <<prog, pc, html_content, text, pre_start, lines, output, second,
                   elements, loopVars, pdfVars>>

\* south-park-transcripts/converter.py lines 100-104
sp_Emit ==
    /\ prog = "sp" /\ pc = "loop" /\ idx = Len(lines)
    /\ output' = sp_JoinAndCollapse(fountain_lines)
    /\ pc' = "done"
    /\ UNCHANGED <<prog, html_content, text, pre_start, lines, idx, fountain_lines,
                   kinds, second, elements, loopVars, pdfVars>>

Next ==
    \/ Extract
    \/ Cleanup
    \/ HeaderSkip
    \/ ClassifyStep
    \/ Emit
    \/ Reclassify
    \/ ParseOutput
    \/ sp_Extract
    \/ sp_Cleanup
    \/ sp_HeaderSkip
    \/ sp_ClassifyStep
    \/ sp_Emit

Spec == Init /\ [][Next]_vars

-----------------------------------------------------------------------------
(* Properties of the converters *)

NonBlankCount(ls, k) == Cardinality({i \in 1..k : ls[i] # <<>>})
NonBlankTotal(ls) == NonBlankCount(ls, Len(ls))
\* index of the r-th non-blank line of ls
NthNonBlank(ls, r) == CHOOSE j \in 1..Len(ls) : ls[j] # <<>> /\ NonBlankCount(ls, j) = r
\* number of blank lines of ls lying after exactly g non-blank lines
BlankGap(ls, g) == Cardinality({i \in 1..Len(ls) : ls[i] = <<>> /\ NonBlankCount(ls, i) = g})

HasOpenTag(doc) == str_contains(doc, PRE_OPEN) \/ str_contains(doc, PRE_OPEN_ATTR)

\* the lines of the returned text; the blank collapse deletes blank lines only, so
\* its r-th non-blank line is the r-th non-blank line of fountain_lines
OutLines == str_splitlines(output)
EmittedRule(k) == kinds[NthNonBlank(fountain_lines, NonBlankCount(OutLines, k))]

\* C1: when the output of the IMDb converter is passed through the forward rules a
\* second time, every line that was emitted as a scene heading (rule 2) or as a
\* transition (rule 3) is emitted unchanged.
C1_SecondPassKeepsHeadingsAndTransitions ==
    (prog = "imdb" /\ pc = "reclassified") =>
        \A k \in 1..Len(OutLines) :
            (OutLines[k] # <<>> /\ EmittedRule(k) \in {2, 3}) => second[k] = OutLines[k]

\* C2: a line the forward cascade classifies Transition with trimmed text c is
\* emitted as "> " + c, and parse_fountain turns that emitted line into a
\* transition element whose text is c.
C2_TransitionRoundTrip ==
    (prog = "imdb" /\ pc = "parsed") =>
        \A j \in 1..Len(fountain_lines) :
            kinds[j] = 3 =>
                /\ fountain_lines[j] = TransitionMark \o str_strip(lines[j])
                /\ elements[NonBlankCount(fountain_lines, j)] =
                       [type |-> "transition", text |-> str_strip(lines[j])]

\* The lines of the returned text as split('\n') gives them.
ReturnedLines == IF fountain_lines = <<>> THEN <<>> ELSE str_split(output)
Finished == pc \in {"done", "reclassified", "parsed"}

\* C3 as stated: a run of N blank lines between two non-blank lines of the
\* classified body leaves exactly 1 blank line in the output when N >= 3 and
\* exactly N blank lines when N is 0, 1 or 2.
C3_CollapseFromThreeBlanks ==
    Finished =>
        \A g \in 1..(NonBlankTotal(fountain_lines) - 1) :
            BlankGap(ReturnedLines, g) =
                IF BlankGap(fountain_lines, g) >= 3 THEN 1 ELSE BlankGap(fountain_lines, g)

\* C3 amended: a run of N blank lines between two non-blank lines of the
\* classified body leaves exactly 1 blank line in the output when N >= 2 and
\* exactly N blank lines when N is 0 or 1 (both converters).
C3_CollapseFromTwoBlanks ==
    Finished =>
        \A g \in 1..(NonBlankTotal(fountain_lines) - 1) :
            BlankGap(ReturnedLines, g) =
                IF BlankGap(fountain_lines, g) >= 2 THEN 1 ELSE BlankGap(fountain_lines, g)

\* a run of three or more blank lines between two non-blank lines was collapsed
C3_Witness ==
    /\ pc = "done"
    /\ NonBlankTotal(fountain_lines) = 2
    /\ BlankGap(fountain_lines, 1) >= 3
    /\ BlankGap(ReturnedLines, 1) = 1

\* C4: the IMDb converter returns the empty string for a document that holds no
\* opening pre tag.
C4_NoPreTagGivesEmpty ==
    (prog = "imdb" /\ Finished /\ ~HasOpenTag(html_content)) => output = <<>>

\* C5: the transcript converter returns the empty string for a document that
\* holds no opening pre tag, and classifies no line of it.
C5_TranscriptNoPreTagGivesEmpty ==
    (prog = "sp" /\ pc # "start" /\ ~HasOpenTag(html_content)) =>
        /\ Finished
        /\ output = <<>>
        /\ lines = <<>> /\ idx = 0 /\ fountain_lines = <<>> /\ kinds = <<>>

\* the transcript converter has returned on a document with text but no pre tag
C5_Witness ==
    /\ prog = "sp" /\ pc = "done"
    /\ ~HasOpenTag(html_content)
    /\ str_contains(html_content, <<"x">>)

\* indentation as the number of leading space characters
LeadingSpaces(line) ==
    LET ns == {k \in 1..Len(line) : line[k] # " "}
    IN  IF ns = {} THEN Len(line) ELSE MinOf(ns) - 1

\* t is: an optional scene number (digits, then blanks) ending at n, then
\* INT / EXT / I/E / INT/EXT in any case, an optional period, and a blank
SceneHeadingShape(t, n) ==
    /\ \/ n = 0
       \/ \E d \in 1..(n - 1) : /\ \A k \in 1..d : t[k] \in Digits
                                /\ \A k \in (d + 1)..n : IsSpace(t[k])
    /\ \E w \in SceneWords :
          /\ MatchAtCI(t, w, n)
          /\ \/ MatchAt(t, <<" ">>, n + Len(w)) \/ MatchAt(t, <<"\t">>, n + Len(w))
             \/ MatchAt(t, <<".", " ">>, n + Len(w)) \/ MatchAt(t, <<".", "\t">>, n + Len(w))

\* C7: a line whose trimmed text has the scene-heading shape is emitted by the
\* IMDb loop as that text without the scene number and its blanks, upper-cased,
\* whatever the indentation of the line.
C7_SceneHeadingNormalized ==
    prog = "imdb" =>
        \A k \in 1..Len(fountain_lines) :
            LET t == str_strip(lines[k])
            IN  \A n \in 0..Len(t) :
                    SceneHeadingShape(t, n) =>
                        fountain_lines[k] = str_upper(SubSeq(t, n + 1, Len(t)))

\* an indented, numbered, lower-case scene heading has been emitted
C7_Witness ==
    /\ prog = "imdb" /\ pc = "done"
    /\ lines = <<Spaces(4) \o T_scene_num>>
    /\ fountain_lines = << <<"I", "N", "T", ".", " ", "A">> >>

\* C8: an upper-case line at indentation >= 20 that is no scene heading and no
\* transition is a Character, a line that is not upper case at indentation in
\* [10, 20) and is no scene heading is a Dialogue, and both are emitted as their
\* trimmed text.
C8_CharacterThenDialogue ==
    prog = "imdb" =>
        \A k \in 1..Len(fountain_lines) :
            LET t == str_strip(lines[k])
                ind == LeadingSpaces(lines[k])
            IN  /\ (t # <<>> /\ str_isupper(t) /\ ind >= 20
                      /\ ~scene_match(t) /\ ~IsTransition(t))
                   => (RuleKind[kinds[k]] = "Character" /\ fountain_lines[k] = t)
                /\ (t # <<>> /\ ~str_isupper(t) /\ 10 <= ind /\ ind < 20 /\ ~scene_match(t))
                   => (RuleKind[kinds[k]] = "Dialogue" /\ fountain_lines[k] = t)

\* the cue "JOHN" at indentation 22 followed by the speech "Hi." at indentation 15
C8_Witness ==
    /\ prog = "imdb" /\ pc = "done"
    /\ lines = <<Spaces(22) \o T_JOHN, Spaces(15) \o T_Hi>>
    /\ kinds = <<4, 5>>
    /\ fountain_lines = <<T_JOHN, T_Hi>>

\* the predicate of rule r of the forward cascade, in the order Blank,
\* SceneHeading, Transition, Character, Dialogue, Parenthetical, Character, Action
RuleHolds(r, line) ==
    LET t == str_strip(line)
        ind == LeadingSpaces(line)
    IN  CASE r = 1 -> t = <<>>
          [] r = 2 -> scene_match(t)
          [] r = 3 -> IsTransition(t)
          [] r = 4 -> ind >= 20 /\ str_isupper(t)
          [] r = 5 -> 10 <= ind /\ ind < 20 /\ ~str_isupper(t)
          [] r = 6 -> 10 <= ind /\ ind < 25 /\ t # <<>> /\ t[1] = "(" /\ t[Len(t)] = ")"
          [] r = 7 -> 4 <= ind /\ ind < 10 /\ str_isupper(t) /\ Len(t) < 30
          [] r = 8 -> TRUE
FirstRule(line) == MinOf({r \in 1..8 : RuleHolds(r, line)})

\* C9: the rule that classifies a line is the first of the eight rules, in the
\* stated order, whose predicate the line satisfies.
C9_FirstMatchingRuleWins ==
    prog = "imdb" =>
        \A k \in 1..Len(kinds) : kinds[k] = FirstRule(lines[k])

\* a parenthesised lower-case line at indentation 10 went to Dialogue, not to
\* Parenthetical
C9_Witness ==
    /\ prog = "imdb" /\ pc = "done"
    /\ lines = <<Spaces(10) \o T_beat>>
    /\ RuleHolds(5, lines[1]) /\ RuleHolds(6, lines[1])
    /\ RuleKind[kinds[1]] = "Dialogue"

\* C10: the IMDb loop appends exactly one line per input line, in order.
C10_OneLinePerInputLine ==
    (prog = "imdb" /\ pc \notin {"start", "sliced", "clean"}) =>
        /\ Len(fountain_lines) = idx
        /\ Len(kinds) = idx
        /\ idx <= Len(lines)
        /\ pc # "loop" => idx = Len(lines)
        /\ \A k \in 1..idx : (fountain_lines[k] = <<>>) <=> (str_strip(lines[k]) = <<>>)

\* the loop has finished on a body of three lines, one of them blank
C10_Witness ==
    /\ prog = "imdb" /\ pc = "done"
    /\ Len(lines) = 3 /\ Len(fountain_lines) = 3
    /\ lines[2] = <<>> /\ lines[1] # <<>> /\ lines[3] # <<>>

-----------------------------------------------------------------------------
(* The download loops: imdb-top250-screenplays/main.py,                        *)
(* imdb-top250-screenplays/scrape_screenplays.py and                           *)
(* south-park-transcripts/02_scrape_transcripts.py download_and_convert.       *)
(* The network and the file system are the environment: each request and each  *)
(* write draws its outcome.  In these programs `idx` counts the items done and *)
(* `output` is the converted text of the item at hand.                         *)

MaxItems == 2        \* movies / episodes in the list

MinBodyLen == 50

\* pages whose converted text has n non-blank characters
Page(n) == PRE_OPEN \o <<"\n">> \o [k \in 1..n |-> "x"] \o <<"\n">> \o PRE_CLOSE
PageLens == {0, MinBodyLen - 10, MinBodyLen - 1, MinBodyLen, MinBodyLen + 1}
Pages == {Page(n) : n \in PageLens}

\* what each converter returns for each page (main.py line 136,
\* scrape_screenplays.py line 114, 02_scrape_transcripts.py line 139)
PageText == [page \in Pages |-> convert_html_to_fountain(page)]
sp_PageText == [page \in Pages |-> sp_convert_html_to_fountain(page)]

OldFile == [exists |-> TRUE, content |-> <<"o", "l", "d">>]
NoFile == [exists |-> FALSE, content |-> <<>>]
Written(body) == [exists |-> TRUE, content |-> body]

\* an item: its position in the loaded list, whether imsdb_url is set and
\* whether transcript_url is set (episodes only)
ItemLists ==
    UNION {{its \in [1..n -> [id : 1..n, url : BOOLEAN, turl : BOOLEAN]] :
              \A k \in 1..n : its[k].id = k} : n \in 1..MaxItems}

convVars == <<html_content, text, pre_start, lines, fountain_lines, kinds, second,
              elements, fountain_content, title, html_parts, cacheVars>>

\* where each program starts: main.py with a movie list on disk ("filter") or
\* without one ("lookup"), scrape_screenplays.py, download_and_convert, and the
\* two programs that only look the scripts up
Entry(p) ==
    CASE p = "main" -> {"filter", "lookup"}
      [] p = "scrape" -> {"filter"}
      [] p = "episodes" -> {"loop"}
      [] p \in {"generate", "scrape_all"} -> {"lookup"}

InitLoops ==
    /\ prog \in {"main", "scrape", "episodes", "generate", "scrape_all"}
    /\ pc \in Entry(prog)
    /\ items \in ItemLists
    /\ pc = "lookup" => \A k \in 1..Len(items) : ~items[k].url
    /\ prog # "episodes" => \A k \in 1..Len(items) : ~items[k].turl
    /\ disk \in [1..Len(items) -> {NoFile, OldFile}]
    /\ html_content = <<>> /\ text = <<>> /\ pre_start = -1 /\ lines = <<>>
    /\ fountain_lines = <<>> /\ kinds = <<>> /\ second = <<>> /\ elements = <<>>
    /\ idx = 0 /\ output = <<>> /\ successful = 0 /\ failed = 0
    /\ requests = <<>> /\ raised = FALSE
    /\ script_url = NoUrl
    /\ fountain_content = <<>> /\ title = <<>> /\ html_parts = <<>>
    /\ all_scripts_cache = NoCache /\ self = NoScraper /\ returned = NoCache

HasUrl(it) == it.url
Cur == items[idx + 1]

\* the except branch reporting the error without counting it
Counted_exceptUncounted(ok, exc) ==
    /\ successful' = IF ok THEN successful + 1 ELSE successful
    /\ failed' = IF ok \/ exc THEN failed ELSE failed + 1
    /\ raised' = exc
    /\ idx' = idx + 1
    /\ pc' = "loop"

\* one iteration ends: the counters move, the cursor advances
Counted(ok, exc) ==
    /\ successful' = IF ok THEN successful + 1 ELSE successful
    /\ failed' = IF ok THEN failed ELSE failed + 1
    /\ raised' = exc
    /\ idx' = idx + 1
    /\ pc' = "loop"

\* main.py line 137
main_TooShort(body) == body = <<>> \/ Len(str_strip(body)) < MinBodyLen
\* scrape_screenplays.py line 116
scrape_LongEnough(body) == body # <<>> /\ Len(str_strip(body)) > MinBodyLen
\* 02_scrape_transcripts.py line 141
ep_LongEnough(body) == body # <<>> /\ Len(str_strip(body)) > MinBodyLen

\* main.py line 119
main_Filter ==
    /\ prog = "main" /\ pc = "filter"
    /\ items' = SelectSeq(items, HasUrl)
    /\ pc' = "loop"
    /\ UNCHANGED <<prog, convVars, script_url, idx, output, successful, failed, disk, requests,
                   raised>>

\* main.py lines 129-136 and 147-151: download_script, then the conversion
main_Download ==
    /\ prog = "main" /\ pc = "loop" /\ idx < Len(items)
    /\ requests' = Append(requests, [item |-> Cur.id, what |-> "script"])
    /\ \/ /\ Counted(FALSE, FALSE)              \* download_script returned None
          /\ UNCHANGED output
       \/ \E page \in Pages :
             /\ output' = PageText[page]
             /\ pc' = "converted"
             /\ UNCHANGED <<idx, successful, failed, raised>>
    /\ UNCHANGED <<prog, convVars, script_url, items, disk>>

\* main.py lines 137-146
main_Save ==
    /\ prog = "main" /\ pc = "converted"
    /\ IF main_TooShort(output)
       THEN Counted(FALSE, FALSE) /\ UNCHANGED disk
       ELSE \/ /\ disk' = [disk EXCEPT ![Cur.id] = Written(output)]
               /\ Counted(TRUE, FALSE)
            \/ Counted(FALSE, TRUE) /\ UNCHANGED disk      \* save_screenplay raised
    /\ UNCHANGED <<prog, convVars, script_url, output, items, requests>>

\* main.py lines 153-159
main_Summary ==
    /\ prog = "main" /\ pc = "loop" /\ idx = Len(items)
    /\ pc' = "end"
    /\ UNCHANGED <<prog, convVars, script_url, idx, output, successful, failed, items, disk,
                   requests, raised>>

\* every movie with a URL is downloaded, already on disk or not
NeedsDownload_always(it) == it.url
\* scrape_screenplays.py lines 80 and 87-92: a movie still to download
NeedsDownload(it) == it.url /\ ~disk[it.id].exists

\* scrape_screenplays.py lines 79-99
scrape_Filter ==
    /\ prog = "scrape" /\ pc = "filter"
    /\ items' = SelectSeq(items, NeedsDownload)
    /\ pc' = IF items' = <<>> THEN "end" ELSE "loop"
    /\ UNCHANGED <<prog, convVars, script_url, idx, output, successful, failed, disk, requests,
                   raised>>

\* scrape_screenplays.py lines 107-114 and 123-131
scrape_Download ==
    /\ prog = "scrape" /\ pc = "loop" /\ idx < Len(items)
    /\ requests' = Append(requests, [item |-> Cur.id, what |-> "script"])
    /\ \/ /\ Counted(FALSE, FALSE)              \* download_script returned None
          /\ UNCHANGED output
       \/ /\ Counted(FALSE, TRUE)               \* an exception reached line 127
          /\ UNCHANGED output
       \/ \E page \in Pages :
             /\ output' = PageText[page]
             /\ pc' = "converted"
             /\ UNCHANGED <<idx, successful, failed, raised>>
    /\ UNCHANGED <<prog, convVars, script_url, items, disk>>

\* scrape_screenplays.py lines 116-131
scrape_Save ==
    /\ prog = "scrape" /\ pc = "converted"
    /\ IF scrape_LongEnough(output)
       THEN \/ /\ disk' = [disk EXCEPT ![Cur.id] = Written(output)]
               /\ Counted(TRUE, FALSE)
            \/ Counted(FALSE, TRUE) /\ UNCHANGED disk      \* save_screenplay raised
       ELSE Counted(FALSE, FALSE) /\ UNCHANGED disk
    /\ UNCHANGED <<prog, convVars, script_url, output, items, requests>>

\* scrape_screenplays.py lines 133-140
scrape_Summary ==
    /\ prog = "scrape" /\ pc = "loop" /\ idx = Len(items)
    /\ pc' = "end"
    /\ UNCHANGED <<prog, convVars, script_url, idx, output, successful, failed, items, disk,
                   requests, raised>>

Responses == {"200", "404", "raise"}

\* 02_scrape_transcripts.py lines 79-139: one iteration up to the conversion.
\* r1 answers the GET of imsdb_url, found is whether get_transcript_url saw a
\* link, direct is whether get_transcript_from_page returned a page, r2 answers
\* the GET of transcript_url.
ep_Fetch ==
    /\ prog = "episodes" /\ pc = "loop" /\ idx < Len(items)
    /\ IF ~Cur.url
       THEN /\ Counted(FALSE, FALSE)                                 \* lines 89-92
            /\ UNCHANGED <<output, items, requests>>
       ELSE IF Cur.turl /\ disk[Cur.id].exists
       THEN /\ Counted(TRUE, FALSE)                                  \* lines 95-102
            /\ UNCHANGED <<output, items, requests>>
       ELSE \E r1 \in Responses, found \in BOOLEAN, direct \in BOOLEAN, r2 \in Responses :
            LET lookup == ~Cur.turl
                req1 == IF lookup
                        THEN <<[item |-> Cur.id, what |-> "episode"]>> ELSE <<>>
                req2 == IF lookup /\ r1 = "200" /\ ~found
                        THEN <<[item |-> Cur.id, what |-> "direct"]>> ELSE <<>>
                known == ~lookup \/ (r1 = "200" /\ (found \/ direct))
                req3 == IF known
                        THEN <<[item |-> Cur.id, what |-> "transcript"]>> ELSE <<>>
            IN  /\ requests' = requests \o req1 \o req2 \o req3
                /\ items' = [items EXCEPT ![idx + 1].turl = known]   \* lines 117, 123
                /\ IF lookup /\ r1 # "200"
                   THEN Counted(FALSE, r1 = "raise") /\ UNCHANGED output   \* 108-111, 156
                   ELSE IF ~known
                   THEN Counted(FALSE, FALSE) /\ UNCHANGED output          \* 124-127
                   ELSE IF r2 # "200"
                   THEN Counted(FALSE, r2 = "raise") /\ UNCHANGED output   \* 133-136, 156
                   ELSE \E page \in Pages :                                \* 132, 139
                           /\ output' = sp_PageText[page]
                           /\ pc' = "converted"
                           /\ UNCHANGED <<idx, successful, failed, raised>>
    /\ UNCHANGED <<prog, convVars, script_url, disk>>

\* 02_scrape_transcripts.py lines 141-160
ep_Save ==
    /\ prog = "episodes" /\ pc = "converted"
    /\ IF ep_LongEnough(output)
       THEN \/ /\ disk' = [disk EXCEPT ![Cur.id] = Written(output)]
               /\ Counted(TRUE, FALSE)
            \/ Counted(FALSE, TRUE) /\ UNCHANGED disk      \* open / write raised
       ELSE Counted(FALSE, FALSE) /\ UNCHANGED disk
    /\ UNCHANGED <<prog, convVars, script_url, output, items, requests>>

\* 02_scrape_transcripts.py line 162
ep_Return ==
    /\ prog = "episodes" /\ pc = "loop" /\ idx = Len(items)
    /\ pc' = "end"
    /\ UNCHANGED <<prog, convVars, script_url, idx, output, successful, failed, items, disk,
                   requests, raised>>

\* the search made whatever the direct lookup returned
NeedsSearch_always(url) == TRUE
\* main.py line 88, generate_movie_list.py line 84, scraper.py line 405
NeedsSearch(url) == url = NoUrl

\* main.py line 85 (generate_movie_list.py line 81, scraper.py line 402):
\* get_script_url_by_title requests the direct URL and returns it if the page
\* holds a screenplay, None otherwise
lk_Direct ==
    /\ prog \in {"main", "generate", "scrape_all"}
    /\ pc = "lookup" /\ idx < Len(items)
    /\ requests' = Append(requests, [item |-> Cur.id, what |-> "direct_url"])
    /\ script_url' \in {NoUrl, "direct_url"}
    /\ pc' = "looked"
    /\ UNCHANGED <<prog, convVars, idx, output, successful, failed, items, disk, raised>>

\* main.py lines 88-89: search_movie posts the query, and when a link matches
\* requests its intro page; it returns the script URL found there or None
lk_Search ==
    /\ prog \in {"main", "generate", "scrape_all"}
    /\ pc = "looked" /\ NeedsSearch(script_url)
    /\ \/ /\ requests' = Append(requests, [item |-> Cur.id, what |-> "search"])
          /\ script_url' = NoUrl                        \* scraper.py lines 56-88, 124-128
       \/ /\ requests' = requests \o <<[item |-> Cur.id, what |-> "search"],
                                       [item |-> Cur.id, what |-> "intro"]>>
          /\ script_url' \in {NoUrl, "transcript_url"}   \* scraper.py lines 116-124
    /\ pc' = "searched"
    /\ UNCHANGED <<prog, convVars, idx, output, successful, failed, items, disk, raised>>

\* main.py lines 91-98: the movie is kept with its URL, or reported not found
lk_Mark ==
    /\ prog \in {"main", "generate", "scrape_all"}
    /\ \/ pc = "looked" /\ ~NeedsSearch(script_url)
       \/ pc = "searched"
    /\ items' = [items EXCEPT ![idx + 1].url = (script_url # NoUrl)]
    /\ idx' = idx + 1
    /\ pc' = "lookup"
    /\ UNCHANGED <<prog, convVars, script_url, output, successful, failed, disk,
                   requests, raised>>

\* main.py lines 100-127 (generate_movie_list.py lines 96-110, scraper.py line
\* 419): the movies found replace the list; main.py goes on to download them
lk_Done ==
    /\ prog \in {"main", "generate", "scrape_all"}
    /\ pc = "lookup" /\ idx = Len(items)
    /\ items' = SelectSeq(items, HasUrl)
    /\ idx' = 0
    /\ pc' = IF prog = "main" THEN "loop" ELSE "end"
    /\ UNCHANGED <<prog, convVars, script_url, output, successful, failed, disk,
                   requests, raised>>

NextLoops ==
    \/ lk_Direct
    \/ lk_Search
    \/ lk_Mark
    \/ lk_Done
    \/ main_Filter
    \/ main_Download
    \/ main_Save
    \/ main_Summary
    \/ scrape_Filter
    \/ scrape_Download
    \/ scrape_Save
    \/ scrape_Summary
    \/ ep_Fetch
    \/ ep_Save
    \/ ep_Return

SpecLoops == InitLoops /\ [][NextLoops]_vars

\* C6: in each of the three loops a converted text is rejected (failed counted,
\* nothing written) exactly when its stripped length is below 50: a text of 40
\* characters is rejected and a text of 50 or more is saved.  The step taken
\* from "converted" is the length test of the loop; a write that raises is the
\* file system failing, not the test.
C6_RejectedBelowFifty ==
    [][(pc = "converted" /\ ~raised') =>
          LET n == Len(str_strip(output))
          IN  /\ n < 50 => (failed' = failed + 1 /\ successful' = successful
                              /\ disk' = disk)
              /\ n >= 50 => (successful' = successful + 1 /\ failed' = failed
                               /\ disk'[Cur.id] = Written(output))]_vars

-----------------------------------------------------------------------------
(* south-park-transcripts/convert_to_pdf.py : fountain_to_html and           *)
(* convert_fountain_to_pdf                                                     *)

\* line 176
HTML_OPEN ==
    <<"<","h","t","m","l",">","<","h","e","a","d",">","<","m","e","t","a"," ",
      "c","h","a","r","s","e","t","=","\"","u","t","f","-","8","\"",">","<",
      "/","h","e","a","d",">","<","b","o","d","y",">">>
\* line 200
HTML_CLOSE == <<"<","/","b","o","d","y",">","<","/","h","t","m","l",">">>

DIV_OPEN == <<"<","d","i","v"," ","c","l","a","s","s","=","\"">>
DIV_MID == <<"\"",">">>
DIV_CLOSE == <<"<","/","d","i","v",">">>
H1_OPEN == <<"<","d","i","v"," ","c","l","a","s","s","=","\"","t","i","t","l","e","-",
  "h","e","a","d","e","r","\"",">","<","h","1",">">>
H1_CLOSE == <<"<","/","h","1",">","<","/","d","i","v",">">>

\* line 180
TitleHeader(t) == H1_OPEN \o t \o H1_CLOSE

\* the class attribute written for each element type, lines 183-196
ClassOf(type) ==
    CASE type = "scene_heading" -> <<"s","c","e","n","e","-","h","e","a","d","i","n","g">>
      [] type = "action" -> <<"a","c","t","i","o","n">>
      [] type = "character" -> <<"c","h","a","r","a","c","t","e","r">>
      [] type = "dialogue" -> <<"d","i","a","l","o","g","u","e">>
      [] type = "parenthetical" -> <<"p","a","r","e","n","t","h","e","t","i","c","a","l">>
      [] type = "transition" -> <<"t","r","a","n","s","i","t","i","o","n">>
      [] type = "centered" -> <<"c","e","n","t","e","r","e","d">>

KnownTypes == {"scene_heading", "action", "character", "dialogue", "parenthetical",
               "transition", "centered"}

\* lines 183-196: f'<div class="...">{text}</div>'
Div(type, t) == DIV_OPEN \o ClassOf(type) \o DIV_MID \o t \o DIV_CLOSE

\* a title element written to the body like an action
EmitElement_titleInBody(elem) ==
    IF elem.type \in KnownTypes THEN <<Div(elem.type, elem.text)>>
    ELSE <<Div("action", elem.text)>>
\* lines 182-198, one iteration: what the if/elif chain appends to html_parts
EmitElement(elem) ==
    IF elem.type \in KnownTypes THEN <<Div(elem.type, elem.text)>> ELSE <<>>


\* the title element found last instead of first
ResolvedTitle_lastTitle(t, els) ==
    LET ts == {k \in 1..Len(els) : els[k].type = "title"}
    IN  IF t # <<>> THEN t ELSE IF ts = {} THEN <<>> ELSE els[MaxOf(ts)].text
\* a title element looked for first, the argument used when there is none
ResolvedTitle_elementFirst(t, els) ==
    LET ts == {k \in 1..Len(els) : els[k].type = "title"}
    IN  IF ts # {} THEN els[MinOf(ts)].text ELSE t
\* lines 169-173: `title` after the search of the elements
ResolvedTitle(t, els) ==
    LET ts == {k \in 1..Len(els) : els[k].type = "title"}
    IN  IF t # <<>> THEN t ELSE IF ts = {} THEN <<>> ELSE els[MinOf(ts)].text

\* lines 176-180: html_parts before the loop over the elements
HtmlHead(t) == IF t # <<>> THEN <<HTML_OPEN, TitleHeader(t)>> ELSE <<HTML_OPEN>>

\* convert_fountain_to_pdf lines 212-216: value of the first line that is a
\* Title line after strip(), '' if there is none
pdf_FirstTitle(content) ==
    LET ls == str_split(content)
        hits == {k \in 1..Len(ls) :
                    str_startswith(str_lower(str_strip(ls[k])), <<"t","i","t","l","e",":">>)}
    IN  IF hits = {} THEN <<>> ELSE AfterFirstColon(ls[MinOf(hits)])

\* length of the match of r'^S\d+E\d+_' at the start of stem, 0 if none
EpisodePrefixLen(stem) ==
    LET digitsFrom(p) ==
            LET nd == {k \in p..Len(stem) : stem[k] \notin Digits}
            IN  IF nd = {} THEN Len(stem) - p + 1 ELSE MinOf(nd) - p
        d1 == digitsFrom(2)
        d2 == digitsFrom(d1 + 3)
    IN  IF /\ Len(stem) >= 1 /\ stem[1] = "S"
           /\ d1 >= 1
           /\ d1 + 2 <= Len(stem) /\ stem[d1 + 2] = "E"
           /\ d2 >= 1
           /\ d1 + d2 + 3 <= Len(stem) /\ stem[d1 + d2 + 3] = "_"
        THEN d1 + d2 + 3 ELSE 0

\* convert_fountain_to_pdf lines 220-223
FileTitle(stem) ==
    LET rest == SubSeq(stem, EpisodePrefixLen(stem) + 1, Len(stem))
    IN  [k \in 1..Len(rest) |-> IF rest[k] = "_" THEN " " ELSE rest[k]]

\* convert_fountain_to_pdf lines 212-223: the title passed to fountain_to_html
pdf_Title(content, stem) ==
    IF pdf_FirstTitle(content) # <<>> THEN pdf_FirstTitle(content) ELSE FileTitle(stem)

-----------------------------------------------------------------------------
(* Fountain texts read by the reverse direction *)

MaxFLines == 3       \* lines of a Fountain text put together line by line

T_title_y == <<"t","i","t","l","e",":","Y">>    \* title:Y
T_Title_empty == <<"T","i","t","l","e",":">>    \* Title:
T_Title_colon == <<"T","I","T","L","E",":"," ","a",":","b">>    \* TITLE: a:b
T_marked_cut == <<">"," ","C","U","T"," ","T","O",":">>    \* > CUT TO:
T_marked_john == <<">"," ","J","O","H","N",":">>    \* > JOHN:
T_marked_x == <<">","x">>    \* >x
T_marker == <<">">>    \* >
T_Fade_in == <<"F","a","d","e"," ","i","n">>    \* Fade in
T_DISSOLVE == <<"D","I","S","S","O","L","V","E">>    \* DISSOLVE
T_SMASH == <<"S","M","A","S","H"," ","C","U","T">>    \* SMASH CUT
T_open_paren == <<"(","b","e","a","t">>    \* (beat
T_hint == <<"H","i","n","t">>    \* Hint

FSeqLines == {<<>>, T_Title, T_marked_cut, T_JOHN, T_Hi, T_beat, Spaces(20) \o T_JOHN}
FScripts == SeqsUpTo(FSeqLines, MaxFLines)

\* several Title lines, with and without a value
FTitleLines == {T_Title, T_title_y, T_Title_empty, T_Hi}
FTitleDocs == {s \in SeqsUpTo(FTitleLines, 3) : Len(s) >= 2}

\* an upper-case candidate, a run of blank lines, and what follows it
FCues == {T_JOHN, T_JOHN \o <<" ">>, Spaces(10) \o T_JOHN, Spaces(20) \o T_JOHN,
          LongName(39), LongName(40), T_OS, T_NUM}
FFollow == {<<>>, <<T_Hi>>, <<T_JOHN>>, <<T_OS>>, <<Spaces(3) \o T_beat>>}
FLookahead ==
    {<<c>> \o [k \in 1..n |-> b] \o f :
        c \in FCues, n \in 0..MaxBlankRun, b \in {<<>>, <<" ", " ">>}, f \in FFollow}

FTexts == {T_CUT_TO, T_marked_cut, T_marked_john, T_marked_x, T_marker, T_FADE_IN,
           T_Fade_in, T_DISSOLVE, T_SMASH, T_INT, T_IE, T_INT_EXT, T_EXT, T_INTRO,
           T_scene_num, T_Title, T_title_y, T_Title_empty, T_Title_colon, T_STAN,
           T_beat, T_OS, T_open_paren, T_Hi, T_JOHN}
FSingles == {<<Spaces(n) \o t \o tr>> :
                n \in {0, 2, 10, 20}, t \in FTexts, tr \in {<<>>, <<" ">>}}

FountainTexts ==
    {str_join(ls) : ls \in FScripts \cup FTitleDocs \cup FLookahead \cup FSingles}

Hints == {<<>>, T_hint}
Stems == {<<"S","0","1","E","0","2","_","B","i","g","_","D","a","y">>,
          <<"P","i","l","o","t">>, <<"S","1","E","1","_">>}


-----------------------------------------------------------------------------
(* Reverse direction: fountain_to_html called with a title, or                 *)
(* convert_fountain_to_pdf reading a .fountain file and calling it.  `lines`,  *)
(* `idx`, `elements` are the locals of parse_fountain; `kinds` records the     *)
(* branch that appended each element; in the loop of fountain_to_html `idx`    *)
(* counts the elements done; `output` is the returned HTML.                    *)

fwdVars == <<html_content, text, pre_start, fountain_lines, second>>

InitPdf ==
    /\ prog \in {"fountain_to_html", "convert_fountain_to_pdf"}
    /\ pc = IF prog = "fountain_to_html" THEN "call" ELSE "start"
    /\ fountain_content \in FountainTexts
    /\ title \in IF prog = "fountain_to_html" THEN Hints ELSE {<<>>}
    /\ html_parts = <<>>
    /\ html_content = <<>>
    /\ Idle

\* convert_fountain_to_pdf lines 207-226: the title is taken from the text or
\* from the file name, then fountain_to_html is called
pdf_ReadTitle ==
    /\ prog = "convert_fountain_to_pdf" /\ pc = "start"
    /\ \E stem \in Stems : title' = pdf_Title(fountain_content, stem)
    /\ pc' = "call"
    /\ UNCHANGED <<prog, fwdVars, lines, idx, kinds, output, elements, loopVars,
                   fountain_content, html_parts>>

\* parse_fountain lines 87-90
ParseBegin ==
    /\ prog \in {"fountain_to_html", "convert_fountain_to_pdf"} /\ pc = "call"
    /\ lines' = str_split(fountain_content)
    /\ idx' = 0 /\ elements' = <<>> /\ kinds' = <<>>
    /\ pc' = "parse"
    /\ UNCHANGED <<prog, fwdVars, output, loopVars, pdfVars>>

\* the loop appending an element for a blank line too
ParseStep_blankElement ==
    /\ pc = "parse" /\ idx < Len(lines)
    /\ IF str_strip(str_rstrip(lines[idx + 1])) = <<>>
       THEN /\ elements' = Append(elements, [type |-> "blank", text |-> <<>>])
            /\ kinds' = Append(kinds, 1)
       ELSE /\ elements' = Append(elements, ParseLine(lines, idx + 1))
            /\ kinds' = Append(kinds, ParseBranch(lines, idx + 1).rule)
    /\ idx' = idx + 1
    /\ UNCHANGED <<prog, pc, fwdVars, lines, output, loopVars, pdfVars>>

\* the loop with the main cursor taking over the look-ahead cursor when a
\* character cue is recognised
ParseStep_cursorJump ==
    /\ pc = "parse" /\ idx < Len(lines)
    /\ IF str_strip(str_rstrip(lines[idx + 1])) = <<>>
       THEN UNCHANGED <<elements, kinds>>
       ELSE /\ elements' = Append(elements, ParseLine(lines, idx + 1))
            /\ kinds' = Append(kinds, ParseBranch(lines, idx + 1).rule)
    /\ idx' = IF /\ str_strip(str_rstrip(lines[idx + 1])) # <<>>
                 /\ ParseBranch(lines, idx + 1).rule = 6
              THEN MinOf({j \in (idx + 2)..Len(lines) : str_strip(lines[j]) # <<>>}) - 1
              ELSE idx + 1
    /\ UNCHANGED <<prog, pc, fwdVars, lines, output, loopVars, pdfVars>>

\* parse_fountain lines 91-158, one iteration of the while loop
ParseStep ==
    /\ pc = "parse" /\ idx < Len(lines)
    /\ IF str_strip(str_rstrip(lines[idx + 1])) = <<>>
       THEN UNCHANGED <<elements, kinds>>
       ELSE /\ elements' = Append(elements, ParseLine(lines, idx + 1))
            /\ kinds' = Append(kinds, ParseBranch(lines, idx + 1).rule)
    /\ idx' = idx + 1
    /\ UNCHANGED <<prog, pc, fwdVars, lines, output, loopVars, pdfVars>>

\* parse_fountain line 160 and fountain_to_html lines 166-180
ResolveTitle ==
    /\ pc = "parse" /\ idx = Len(lines)
    /\ title' = ResolvedTitle(title, elements)
    /\ html_parts' = HtmlHead(title')
    /\ idx' = 0
    /\ pc' = "emit"
    /\ UNCHANGED <<prog, fwdVars, lines, kinds, output, elements, loopVars,
                   fountain_content>>

\* fountain_to_html lines 182-198, one iteration of the loop
EmitStep ==
    /\ pc = "emit" /\ idx < Len(elements)
    /\ html_parts' = html_parts \o EmitElement(elements[idx + 1])
    /\ idx' = idx + 1
    /\ UNCHANGED <<prog, pc, fwdVars, lines, kinds, output, elements, loopVars,
                   fountain_content, title>>

\* fountain_to_html lines 200-201
Render ==
    /\ pc = "emit" /\ idx = Len(elements)
    /\ html_parts' = Append(html_parts, HTML_CLOSE)
    /\ output' = str_join(html_parts')
    /\ pc' = "rendered"
    /\ UNCHANGED <<prog, fwdVars, lines, idx, kinds, elements, loopVars,
                   fountain_content, title>>

NextPdf ==
    \/ pdf_ReadTitle
    \/ ParseBegin
    \/ ParseStep
    \/ ResolveTitle
    \/ EmitStep
    \/ Render

SpecPdf == InitPdf /\ [][NextPdf]_vars

-----------------------------------------------------------------------------
(* Properties of the reverse direction *)

Reverse == prog \in {"fountain_to_html", "convert_fountain_to_pdf"}
\* number of lines parse_fountain has gone through
Parsed ==
    IF pc = "parse" THEN idx ELSE IF pc \in {"emit", "rendered"} THEN Len(lines) ELSE 0
\* the lines among the first k that are not blank
TextLines(k) == {i \in 1..k : str_strip(lines[i]) # <<>>}
TextCount(k) == Cardinality(TextLines(k))
\* index of the r-th line that is not blank
NthText(r) == CHOOSE j \in TextLines(Len(lines)) : TextCount(j) = r
\* the r-th line that is not blank, without its trailing whitespace
TextLine(r) == str_rstrip(lines[NthText(r)])

\* C11 as stated: parse_fountain holds one element for every line it has gone
\* through, blank lines included, so the elements are as many as the lines.
C11_OneElementPerLine ==
    (Reverse /\ pc \in {"parse", "emit", "rendered"}) => Len(elements) = Parsed

\* C11 amended: parse_fountain holds one element for every line it has gone
\* through that is not blank, in line order, and none for a blank line: the
\* elements are as many as the non-blank lines, and the r-th element carries
\* text of the r-th non-blank line.
C11_OneElementPerTextLine ==
    (Reverse /\ pc \in {"parse", "emit", "rendered"}) =>
        /\ Len(elements) = TextCount(Parsed)
        /\ Len(kinds) = Len(elements)
        /\ \A r \in 1..Len(elements) :
              /\ elements[r].type # "blank"
              /\ str_contains(lines[NthText(r)], elements[r].text)

\* a text of three lines, the middle one blank, has been parsed into two elements
C11_Witness ==
    /\ Reverse /\ pc = "rendered"
    /\ lines = <<T_JOHN, <<>>, T_Hi>>
    /\ Len(elements) = 2

\* the later non-blank line nearest to line k exists and is not upper case or
\* starts with "("
LookAheadOK(k) ==
    \E j \in (k + 1)..Len(lines) :
        /\ str_strip(lines[j]) # <<>>
        /\ \A m \in (k + 1)..(j - 1) : str_strip(lines[m]) = <<>>
        /\ (~str_isupper(str_strip(lines[j])) \/ str_strip(lines[j])[1] = "(")

\* the predicate of rule r of the reverse order (2 Title, 3 SceneHeading,
\* 4 Transition by keyword, 5 Transition by marker, 6 Character by look-ahead,
\* 7 Parenthetical, 8 indentation) on line k
RevRuleHolds(r, k) ==
    LET line == str_rstrip(lines[k])
    IN  CASE r = 2 -> MatchAtCI(line, <<"t","i","t","l","e",":">>, 0)
          [] r = 3 -> SceneHeadingShape(line, 0)
          [] r = 4 -> str_isupper(line) /\ \E w \in TransitionWords : str_contains(line, w)
          [] r = 5 -> line[1] = ">"
          [] r = 6 -> str_isupper(line) /\ Len(line) < 40 /\ line[1] # "(" /\ LookAheadOK(k)
          [] r = 7 -> line[1] = "(" /\ line[Len(line)] = ")"
          [] r = 8 -> TRUE
FirstRevRule(k) == MinOf({r \in 2..8 : RevRuleHolds(r, k)})
\* the type rule r assigns to line k
RevType(r, k) ==
    CASE r = 2 -> "title"
      [] r = 3 -> "scene_heading"
      [] r \in {4, 5} -> "transition"
      [] r = 6 -> "character"
      [] r = 7 -> "parenthetical"
      [] r = 8 -> IF LeadingSpaces(lines[k]) >= 20 THEN "character"
                  ELSE IF LeadingSpaces(lines[k]) >= 10 THEN "dialogue"
                  ELSE "action"

\* C12: every non-blank line is classified by the first rule, in the order
\* Title, SceneHeading, Transition by keyword, Transition by marker, Character
\* by look-ahead, Parenthetical, indentation, whose predicate it satisfies, and
\* its element has the type of that rule.
C12_FirstMatchingReverseRule ==
    Reverse =>
        \A r \in 1..Len(elements) :
            /\ kinds[r] = FirstRevRule(NthText(r))
            /\ elements[r].type = RevType(FirstRevRule(NthText(r)), NthText(r))

\* "> CUT TO:" satisfies the keyword rule and the marker rule and went to the
\* keyword rule
C12_Witness ==
    /\ Reverse /\ pc = "rendered"
    /\ lines = <<T_marked_cut>>
    /\ RevRuleHolds(4, 1) /\ RevRuleHolds(5, 1)
    /\ kinds = <<4>> /\ elements[1].type = "transition"

\* C13: every line that starts with ">" gives a transition element whose text
\* is the rest of the line after the marker, trimmed.
C13_MarkerStripped ==
    Reverse =>
        \A r \in 1..Len(elements) :
            TextLine(r)[1] = ">" =>
                elements[r] = [type |-> "transition",
                               text |-> str_strip(SubSeq(TextLine(r), 2, Len(TextLine(r))))]

\* the lines that start with "title:" in any case, and the value of such a line:
\* the text after its first colon, trimmed
TitleLines == {k \in 1..Len(lines) : MatchAtCI(lines[k], <<"t","i","t","l","e",":">>, 0)}
TitleValue(k) == str_strip(SubSeq(lines[k], 7, Len(lines[k])))
FirstTitleValue == IF TitleLines = {} THEN <<>> ELSE TitleValue(MinOf(TitleLines))

\* C14 as stated: fountain_to_html resolves the title to the value of the first
\* Title line whenever the text holds one, and to the title it was given only
\* when the text holds none.
C14_TitleLineBeforeHint ==
    [][(pc = "parse" /\ pc' = "emit") =>
          title' = IF TitleLines # {} THEN FirstTitleValue ELSE title]_vars

\* C14 amended: fountain_to_html resolves the title to the title it was given
\* whenever that is not empty, whatever Title lines the text holds, and to the
\* value of the first Title line (empty if there is none) only when it was given
\* an empty title; a resolved title that is not empty is written to the header.
C14_HintBeforeTitleLine ==
    [][(pc = "parse" /\ pc' = "emit") =>
          /\ title' = IF title # <<>> THEN title ELSE FirstTitleValue
          /\ title' # <<>> => str_contains(html_parts'[2], title')
          /\ Len(html_parts') = IF title' # <<>> THEN 2 ELSE 1]_vars

\* called with the title "Hint" on a text whose first Title line has the value
\* "X", fountain_to_html has written the header with "Hint"
C14_Witness ==
    /\ prog = "fountain_to_html" /\ pc = "emit"
    /\ TitleLines # {} /\ FirstTitleValue = <<"X">>
    /\ title = T_hint
    /\ html_parts[2] = TitleHeader(T_hint)

\* C15: when the text holds several Title lines and fountain_to_html is given an
\* empty title, every Title line has its title element with its value, the
\* resolved title is the value of the first Title line, and the loop over the
\* elements appends nothing for a title element.
C15_FirstTitleWins ==
    [][/\ (pc = "parse" /\ pc' = "emit" /\ title = <<>> /\ Cardinality(TitleLines) >= 2) =>
            LET ts == {r \in 1..Len(elements) : elements[r].type = "title"}
            IN  /\ Cardinality(ts) = Cardinality(TitleLines)
                /\ \A r \in ts : /\ NthText(r) \in TitleLines
                                 /\ elements[r].text = TitleValue(NthText(r))
                /\ title' = FirstTitleValue
       /\ (pc = "emit" /\ idx' = idx + 1 /\ elements[idx + 1].type = "title") =>
            html_parts' = html_parts]_vars

\* the text "title:Y", "Title: X" given with an empty title is rendered with the
\* header "Y" and no body fragment
C15_Witness ==
    /\ prog = "fountain_to_html" /\ pc = "rendered"
    /\ lines = <<T_title_y, T_Title>>
    /\ Len(elements) = 2
    /\ title = <<"Y">>
    /\ html_parts = <<HTML_OPEN, TitleHeader(<<"Y">>), HTML_CLOSE>>

\* the fragments appended by the loop over the elements so far
BodyParts ==
    SubSeq(html_parts, (IF title # <<>> THEN 2 ELSE 1) + 1,
           Len(html_parts) - (IF pc = "rendered" THEN 1 ELSE 0))
\* the elements the loop has gone through whose type has a fragment
LaidOut ==
    {r \in 1..(IF pc = "emit" THEN idx ELSE Len(elements)) :
        elements[r].type \in {"scene_heading", "action", "character", "dialogue",
                              "parenthetical", "transition", "centered"}}

\* C16: the loop of fountain_to_html has appended exactly one fragment, of its
\* class and with its text, for each element gone through whose type is one of
\* the seven laid out, in element order, and nothing for any other element.
C16_OneFragmentPerKnownElement ==
    (Reverse /\ pc \in {"emit", "rendered"}) =>
        /\ Len(BodyParts) = Cardinality(LaidOut)
        /\ \A r \in LaidOut :
              BodyParts[Cardinality({q \in LaidOut : q <= r})] =
                  Div(elements[r].type, elements[r].text)
        /\ pc = "rendered" => html_parts[Len(html_parts)] = HTML_CLOSE

\* a text with a Title line, a cue and a speech is rendered with two fragments
C16_Witness ==
    /\ Reverse /\ pc = "rendered"
    /\ lines = <<T_Title, T_JOHN, T_Hi>>
    /\ Len(elements) = 3 /\ elements[1].type = "title"
    /\ Len(BodyParts) = 2

\* line k is upper case, shorter than 40 characters, does not start with "("
\* and satisfies none of the rules before the look-ahead rule
CueShape(k) ==
    LET line == str_rstrip(lines[k])
    IN  /\ str_isupper(line) /\ Len(line) < 40 /\ line[1] # "("
        /\ \A r \in 2..5 : ~RevRuleHolds(r, k)

\* C19 as stated: such a line gets the type character exactly when a later
\* non-blank line exists and the nearest one is not upper case or starts with "(".
C19_CharacterIffLookAhead ==
    Reverse =>
        \A r \in 1..Len(elements) :
            CueShape(NthText(r)) =>
                (elements[r].type = "character" <=> LookAheadOK(NthText(r)))

\* C19 amended: such a line is classified by the look-ahead rule, as a character
\* element holding the line, exactly when a later non-blank line exists and the
\* nearest one is not upper case or starts with "(", however many blank lines
\* lie between; otherwise it falls through to the indentation rule, which still
\* gives the type character at indentation 20 or more.
C19_LookAheadRuleIff ==
    Reverse =>
        \A r \in 1..Len(elements) :
            CueShape(NthText(r)) =>
                IF LookAheadOK(NthText(r))
                THEN /\ kinds[r] = 6
                     /\ elements[r] = [type |-> "character", text |-> TextLine(r)]
                ELSE /\ kinds[r] = 8
                     /\ elements[r].type = RevType(8, NthText(r))

\* "JOHN", three blank lines, "Hi.": the cue is found across the blank lines
C19_Witness ==
    /\ Reverse /\ pc = "rendered"
    /\ lines = <<T_JOHN, <<>>, <<>>, <<>>, T_Hi>>
    /\ kinds[1] = 6 /\ elements[1].type = "character"

-----------------------------------------------------------------------------
(* Properties of the forward direction, continued *)

\* C18: whenever the IMDb loop has classified a line as Dialogue, it has
\* classified an earlier line of the document as Character.
C18_DialogueAfterCharacter ==
    prog = "imdb" =>
        \A k \in 1..Len(kinds) :
            RuleKind[kinds[k]] = "Dialogue" =>
                \E j \in 1..(k - 1) : RuleKind[kinds[j]] = "Character"

\* a line is content: not empty after trimming and not starting with "<", "//"
\* or "if "
FirstContent(all) ==
    LET content == {k \in 1..Len(all) :
                       LET t == str_strip(all[k])
                       IN  /\ t # <<>>
                           /\ ~MatchAt(t, <<"<">>, 0)
                           /\ ~MatchAt(t, <<"/", "/">>, 0)
                           /\ ~MatchAt(t, <<"i", "f", " ">>, 0)}
    IN  IF content = {} THEN -1 ELSE MinOf(content) - 1

\* C20: with i the 0-based index of the first content line of the cleaned text,
\* the header skip of either converter discards the first max(0, i - 1) lines
\* when i < 30 (IMDb) or i < 20 (transcripts) and none otherwise, so the lines
\* it keeps start at or before the first content line, which is kept.  (The
\* IMDb converter then re-splits the kept text, which drops one empty line at
\* its end.)
C20_HeaderSkipKeepsContent ==
    [][(pc = "clean" /\ pc' = "loop") =>
          LET all == str_split(text)
              i == FirstContent(all)
              limit == IF prog = "imdb" THEN 30 ELSE 20
              d == IF i # -1 /\ i < limit /\ i - 1 > 0 THEN i - 1 ELSE 0
              kept == SubSeq(all, d + 1, Len(all))
          IN  /\ lines' = IF prog = "imdb" /\ kept[Len(kept)] = <<>>
                          THEN SubSeq(kept, 1, Len(kept) - 1) ELSE kept
              /\ i # -1 => (d <= i /\ lines'[i - d + 1] = all[i + 1])]_vars

\* 29 comment lines before the first content line: the IMDb converter keeps the
\* last of them and the content line
C20_Witness ==
    /\ prog = "imdb" /\ pc = "loop" /\ idx = 0
    /\ html_content = Wrap([k \in 1..29 |-> T_comment] \o <<T_JOHN>>)
    /\ lines = <<T_comment, T_JOHN>>

-----------------------------------------------------------------------------
(* Properties of the lookup loop *)

\* the requests issued by the step taken
NewRequests == SubSeq(requests', Len(requests) + 1, Len(requests'))
Asked(what) == \E k \in 1..Len(NewRequests) : NewRequests[k].what = what

-----------------------------------------------------------------------------
(* The slice both forward converters keep *)

\* offsets at which a literal occurs in doc
Occurrences(doc, pat) == {p \in 0..(Len(doc) - Len(pat)) : MatchAt(doc, pat, p)}
ExactOpens(doc) == Occurrences(doc, PRE_OPEN)
AttrOpens(doc) == Occurrences(doc, PRE_OPEN_ATTR)
Closes(doc) == Occurrences(doc, PRE_CLOSE)
\* an opening tag of either form with a closing tag somewhere after it
OpenThenClose(doc) ==
    \E p \in ExactOpens(doc) \cup AttrOpens(doc) : \E q \in Closes(doc) : q > p
Sliced == prog \in {"imdb", "sp"} /\ pc = "sliced"

\* C21 as stated: when the document holds an opening pre tag of either form with
\* a "</pre>" after it, the slice kept starts at the earliest opening tag of
\* either form and ends before the last "</pre>".
C21_SliceFromEarliestOpening ==
    (Sliced /\ OpenThenClose(html_content)) =>
        text = Slice(html_content,
                     MinOf(ExactOpens(html_content) \cup AttrOpens(html_content)),
                     MaxOf(Closes(html_content)))

\* C21 amended: in that case the slice kept ends before the last "</pre>" and
\* starts at the first exact "<pre>" when the last "</pre>" lies after it,
\* otherwise at the first "<pre ".
C21_SliceFromExactFirst ==
    (Sliced /\ OpenThenClose(html_content)) =>
        LET exact == ExactOpens(html_content)
            last == MaxOf(Closes(html_content))
            from == IF exact # {} /\ MinOf(exact) < last
                    THEN MinOf(exact) ELSE MinOf(AttrOpens(html_content))
        IN  text = Slice(html_content, from, last)

\* both forms occur before the closing tag, the attribute form first, and the
\* slice starts at the exact form
C21_Witness ==
    /\ Sliced /\ OpenThenClose(html_content)
    /\ ExactOpens(html_content) # {} /\ AttrOpens(html_content) # {}
    /\ MinOf(AttrOpens(html_content)) < MinOf(ExactOpens(html_content))
    /\ text = Slice(html_content, MinOf(ExactOpens(html_content)),
                    MaxOf(Closes(html_content)))
    /\ text # html_content

-----------------------------------------------------------------------------
(* Transitions in the transcript converter *)

\* C22: every line the transcript converter handles that is upper case, holds one
\* of FADE, CUT TO, DISSOLVE, SMASH CUT and is not a scene heading is emitted as
\* "> " followed by the trimmed line, at any indentation, with or without a colon.
C22_TranscriptTransitionMarked ==
    [][(prog = "sp" /\ pc = "loop" /\ idx' = idx + 1) =>
          LET stripped == str_strip(lines[idx + 1])
          IN  (/\ str_isupper(stripped)
               /\ \E w \in TransitionWords : str_contains(stripped, w)
               /\ ~SceneWordAt(stripped, 0))
              => fountain_lines' = Append(fountain_lines, TransitionMark \o stripped)]_vars

-----------------------------------------------------------------------------
(* imdb-top250-screenplays/scraper.py : IMSDbScraper._get_all_scripts         *)
(* Calls follow each other (the programs are single-threaded); `idx` counts   *)
(* the calls made, `requests` records every GET of the listing page.          *)

MaxCalls == 4        \* calls of _get_all_scripts in one run
MaxScrapers == 2     \* IMSDbScraper instances alive in the process

Scrapers == 1..MaxScrapers
\* what a successful GET of all-scripts.html may parse to
ListingPages == {"listing_a", "listing_b"}

\* everything _get_all_scripts leaves alone
scraperFrame == <<prog, html_content, text, pre_start, lines, fountain_lines, kinds,
                  second, elements, pdfVars, output, successful, failed, items, disk,
                  script_url>>

InitCache ==
    /\ prog = "get_all_scripts" /\ pc = "idle"
    /\ html_content = <<>>
    /\ Idle
    /\ fountain_content = <<>> /\ title = <<>> /\ html_parts = <<>>

\* the page is requested on every call
CacheEmpty_always(cache) == TRUE
\* line 36
CacheEmpty(cache) == cache = NoCache

\* lines 34-38 and 41: a call on some instance; with the cache set it returns
\* the cached page, otherwise it issues the GET
gas_Call ==
    /\ prog = "get_all_scripts" /\ pc \in {"idle", "returned", "raised"}
    /\ idx < MaxCalls
    /\ \E s \in Scrapers :
          /\ self' = s
          /\ IF CacheEmpty(all_scripts_cache)
             THEN /\ requests' = Append(requests, [by |-> s, what |-> "all-scripts.html"])
                  /\ pc' = "fetching"
                  /\ returned' = returned
             ELSE /\ requests' = requests
                  /\ pc' = "returned"
                  /\ returned' = all_scripts_cache
    /\ idx' = idx + 1
    /\ raised' = FALSE
    /\ UNCHANGED <<scraperFrame, all_scripts_cache>>

\* lines 38-41: the response arrived with a good status; it is parsed, stored
\* in the class attribute and returned
gas_Store ==
    /\ prog = "get_all_scripts" /\ pc = "fetching"
    /\ \E page \in ListingPages :
          /\ all_scripts_cache' = page
          /\ returned' = page
    /\ pc' = "returned"
    /\ UNCHANGED <<scraperFrame, idx, requests, raised, self>>

\* lines 38-39: session.get or raise_for_status raises; the call ends there
gas_Raise ==
    /\ prog = "get_all_scripts" /\ pc = "fetching"
    /\ raised' = TRUE
    /\ pc' = "raised"
    /\ UNCHANGED <<scraperFrame, idx, requests, self, all_scripts_cache, returned>>

NextCache ==
    \/ gas_Call
    \/ gas_Store
    \/ gas_Raise

SpecCache == InitCache /\ [][NextCache]_vars

\* C23: once the all-scripts cache is populated it is never changed or reset, a
\* call on any instance then issues no request and returns the cached page; a
\* fetch that raises leaves the cache unpopulated.
C23_CachePopulatedOnce ==
    [][/\ all_scripts_cache # NoCache =>
            /\ all_scripts_cache' = all_scripts_cache
            /\ requests' = requests
            /\ pc' = "returned" => returned' = all_scripts_cache
       /\ (pc = "fetching" /\ raised') => all_scripts_cache' = NoCache]_vars

\* after a fetch that raised and one that succeeded, a call on another instance
\* returned the cached page: three calls, two requests
C23_Witness ==
    /\ prog = "get_all_scripts" /\ pc = "returned"
    /\ idx = 3 /\ Len(requests) = 2
    /\ requests[2].by # self
    /\ all_scripts_cache # NoCache /\ returned = all_scripts_cache

-----------------------------------------------------------------------------
(* Blank lines of the returned text *)

NoTripleNewline(s) == ~\E p \in 0..(Len(s) - 3) : MatchAt(s, <<"\n", "\n", "\n">>, p)
NoAdjacentBlankLines(ls) == ~\E k \in 1..(Len(ls) - 1) : ls[k] = <<>> /\ ls[k + 1] = <<>>
Returned == prog \in {"imdb", "sp"} /\ pc = "done"

\* C24 as stated: the text either forward converter returns holds no three
\* consecutive newlines, that is, no two adjacent blank lines anywhere; the
\* transcript converter's text has no leading or trailing whitespace.
C24_NoAdjacentBlankLinesAnywhere ==
    Returned =>
        /\ NoTripleNewline(output)
        /\ NoAdjacentBlankLines(OutLines)
        /\ prog = "sp" => output = str_strip(output)

\* C24 amended: the text either forward converter returns holds no three
\* consecutive newlines, so no two adjacent blank lines stand between two lines
\* of text (the text of the IMDb converter may still begin with two blank
\* lines); the transcript converter's text has no leading or trailing whitespace.
C24_NoTripleNewline ==
    Returned =>
        /\ NoTripleNewline(output)
        /\ \A k \in 1..(Len(OutLines) - 1) :
              (OutLines[k] = <<>> /\ OutLines[k + 1] = <<>>) =>
                  \A j \in 1..k : OutLines[j] = <<>>
        /\ prog = "sp" => output = str_strip(output)

\* the transcript converter joined lines holding a run of three newlines and
\* whitespace at an end, and returned text
C24_Witness ==
    /\ prog = "sp" /\ pc = "done" /\ output # <<>>
    /\ ~NoTripleNewline(str_join(fountain_lines))
    /\ str_join(fountain_lines) # str_strip(str_join(fountain_lines))

-----------------------------------------------------------------------------
(* Progress of parse_fountain *)

\* fountain_to_html line 166 calls parse_fountain, which runs to its return
InitParse ==
    /\ prog = "fountain_to_html" /\ pc = "call"
    /\ fountain_content \in FountainTexts
    /\ title = <<>> /\ html_parts = <<>> /\ html_content = <<>>
    /\ Idle

NextParse ==
    \/ ParseBegin
    \/ ParseStep
    \/ ResolveTitle

\* NextParse can take a step exactly in these states
Running == pc \in {"call", "parse"}
\* The interpreter goes on executing the function: this is WF_vars(NextParse)
\* written out, with the state predicate Running for ENABLED <<NextParse>>_vars.
ParseFair == []<>(~Running) \/ []<><<NextParse>>_vars

SpecParse == InitParse /\ [][NextParse]_vars /\ ParseFair

InLoop == Reverse /\ pc = "parse"
IsTextLine(k) == str_strip(lines[k]) # <<>>

\* C25: every iteration of the main loop of parse_fountain moves the cursor
\* forward by exactly one line, leaves `lines` alone and appends one element for
\* a non-blank line and none for a blank one, after the elements already there;
\* the loop is left only with the cursor at the end, holding as many elements as
\* there are non-blank lines; and a loop that was entered is left.
C25_ParseTerminates ==
    /\ [][InLoop =>
            /\ lines' = lines
            /\ pc' = "parse" =>
                  /\ idx' = idx + 1 /\ idx' <= Len(lines)
                  /\ Len(elements') = Len(elements) + (IF IsTextLine(idx + 1) THEN 1 ELSE 0)
                  /\ Len(kinds') = Len(elements')
                  /\ SubSeq(elements', 1, Len(elements)) = elements
                  /\ TextCount(idx') = Len(elements')
            /\ pc' # "parse" =>
                  /\ idx = Len(lines)
                  /\ elements' = elements
                  /\ Len(elements) = TextCount(Len(lines))]_vars
    /\ (InLoop ~> (Reverse /\ pc = "emit"))

\* the loop was left after a cue recognised by look-ahead over a blank line,
\* with one element for each of the two non-blank lines
C25_Witness ==
    /\ Reverse /\ pc = "emit"
    /\ Len(lines) = 3 /\ ~IsTextLine(2)
    /\ kinds = <<6, 8>>
    /\ Len(elements) = 2

-----------------------------------------------------------------------------
(* Counters of the download loops *)

Downloading == prog \in {"main", "scrape", "episodes"} /\ pc \in {"loop", "converted"}

\* C26: in each of the three download loops the two counters add up to the
\* number of items gone through, every iteration ends by adding exactly one to
\* exactly one of them (early continue and except paths included), and when the
\* loop has finished they add up to the number of items iterated.
C26_EveryItemCountedOnce ==
    /\ [](Downloading => successful + failed = idx)
    /\ []((prog \in {"main", "scrape", "episodes"} /\ pc = "end") =>
              successful + failed = Len(items))
    /\ [][Downloading =>
            /\ idx' \in {idx, idx + 1}
            /\ idx' = idx + 1 =>
                  \/ successful' = successful + 1 /\ failed' = failed
                  \/ successful' = successful /\ failed' = failed + 1
            /\ idx' = idx => (successful' = successful /\ failed' = failed)]_vars

\* download_and_convert returned after two episodes, one counted successful
\* without a request and one counted failed in the except branch
C26_Witness ==
    /\ prog = "episodes" /\ pc = "end"
    /\ Len(items) = 2 /\ successful = 1 /\ failed = 1
    /\ raised /\ Len(requests) = 1

-----------------------------------------------------------------------------
(* Files already on disk *)

Requested(id) == \E r \in 1..Len(requests) : requests[r].item = id

\* C27: in scrape_screenplays a movie whose file exists when the run starts
\* is never requested and its file is never changed; a file is written only
\* for the movie at hand, which has a URL and was downloaded, with its converted
\* text, stripped, longer than 50 characters; when every movie has its file at
\* the start no request is issued.
C27_ScrapeResumeSafe ==
    /\ [](prog = "scrape" =>
            /\ \A k \in 1..Len(disk) : disk[k] = OldFile => ~Requested(k)
            /\ (\A k \in 1..Len(disk) : disk[k] = OldFile) => requests = <<>>)
    /\ [][prog = "scrape" =>
            \A k \in 1..Len(disk) :
                /\ disk[k] = OldFile => disk'[k] = OldFile
                /\ disk'[k] # disk[k] =>
                      /\ pc = "converted" /\ Cur.id = k /\ Cur.url
                      /\ requests[Len(requests)] = [item |-> k, what |-> "script"]
                      /\ Len(str_strip(output)) > 50
                      /\ disk'[k] = Written(output)]_vars

\* the run ended with the file of one movie left as it was and the file of the
\* other written after a single download
C27_Witness ==
    /\ prog = "scrape" /\ pc = "end"
    /\ Len(disk) = 2
    /\ \E k \in 1..2 : disk[k] = OldFile /\ disk[3 - k].exists /\ disk[3 - k] # OldFile
    /\ Len(requests) = 1

\* C28: download_and_convert counts an episode whose file exists as successful
\* without issuing a request, whether or not its transcript_url is set, and
\* never changes a file that exists.
C28_EpisodeResumeSafe ==
    [][prog = "episodes" =>
          /\ (pc = "loop" /\ idx < Len(items) /\ disk[Cur.id].exists) =>
                /\ idx' = idx + 1
                /\ successful' = successful + 1 /\ failed' = failed
                /\ requests' = requests
          /\ \A k \in 1..Len(disk) : disk[k] = OldFile => disk'[k] = OldFile]_vars

\* C29: the transcript converter returns early, before cleanup and
\* classification, exactly when the document holds neither "<pre>" nor "<pre ".
C29_EarlyReturnIffNoOpenTag ==
    [][(prog = "sp" /\ pc = "start") =>
          ((pc' = "done" /\ output' = <<>>) <=> ~HasOpenTag(html_content))]_vars

-----------------------------------------------------------------------------
(* Forward output read back by parse_fountain *)

\* C30: every line either forward converter emits has no leading or trailing
\* whitespace; so when parse_fountain reads the returned text, a line that
\* reaches the indentation fallback becomes an action, no line becomes a
\* dialogue, and a line becomes a character only by the look-ahead rule.
C30_ForwardLinesUnindented ==
    (prog \in {"imdb", "sp"} /\ pc \in {"loop", "done", "parsed"}) =>
        /\ \A k \in 1..Len(fountain_lines) : fountain_lines[k] = str_strip(fountain_lines[k])
        /\ pc = "parsed" =>
              LET ls == str_split(output)
                  texts == {i \in 1..Len(ls) : str_strip(ls[i]) # <<>>}
              IN  /\ Len(elements) = Cardinality(texts)
                  /\ \A i \in texts :
                        LET branch == ParseBranch(ls, i)
                            elem == elements[Cardinality({j \in texts : j <= i})]
                        IN  /\ elem.type = branch.type
                            /\ branch.rule = 8 => elem.type = "action"
                            /\ elem.type # "dialogue"
                            /\ elem.type = "character" => branch.rule = 6

\* a cue and an indented speech went through the IMDb converter and were read
\* back as a character, by look-ahead, and an action
C30_Witness ==
    /\ prog = "imdb" /\ pc = "parsed"
    /\ kinds = <<4, 5>>
    /\ LeadingWhitespace(lines[2]) >= 10
    /\ elements = <<[type |-> "character", text |-> T_JOHN], [type |-> "action", text |-> T_Hi]>>
=============================================================================
